---- MODULE Spec2Model ----
(***************************************************************************)
(* Verification model of the underwriting core: RiskCase and its audit     *)
(* trail, RequirementEngine.determine, DeterministicRatingEngine.rate,     *)
(* LLMAdvisor.advise and ProductionPipeline.process/_construct_offer.      *)
(*                                                                         *)
(* Conventions                                                             *)
(*   - An Optional[T] value is a sequence: None is <<>>, a present value   *)
(*     v is <<v>>.                                                         *)
(*   - BMI and HbA1c carry one decimal in the source (22.1, 8.2); they are *)
(*     held in tenths (221, 82) and every threshold is scaled with them.   *)
(*   - Base rates carry two decimals (2.50); they are held in hundredths   *)
(*     (250) and premiums in hundredths of a rupee.                        *)
(*   - Free text built with f-strings is held as a tag (and, where the     *)
(*     text embeds a value that matters, as a record of its parts).        *)
(*   - AuditEntry.entry_id and .timestamp (uuid4, utcnow) are not held.    *)
(***************************************************************************)
EXTENDS Integers, Sequences, FiniteSets, TLC

VARIABLES
    risk_case,      \* the RiskCase the operations work on
    req_counter,    \* RequirementEngine.req_counter
    ratings,        \* what each direct call of rate() produced, in call order
    offers,         \* what each call of process() produced, in call order
    twin,           \* a second case built from the same evidence, and its one run
    loading_in,     \* arguments handed to _determine_risk_class
    class_out,      \* what _determine_risk_class returned for them
    calls           \* the direct calls of the other operations on the case, in call order

vars == <<risk_case, req_counter, ratings, offers, twin, loading_in, class_out, calls>>

-----------------------------------------------------------------------------
(* Bounds of the model *)

\* how many evidence groups of a case may differ from a baseline profile
MaxDev == 3
\* direct calls of rate() on one case
MaxRates == 2
\* calls of process() on one case
MaxRuns == 2
\* largest total loading handed to _determine_risk_class directly
MaxLoading == 110
\* operations applied to one case when they are interleaved freely
MaxOps == 3

-----------------------------------------------------------------------------
(* Optional values and Python truthiness *)

None == <<>>
Some(v) == <<v>>
IsNone(o) == o = <<>>
Val(o) == o[1]

\* `if x:` for an Optional number: None and 0 are both falsy
Truthy(o) == o # <<>> /\ o[1] # 0

\* `x or d` for an Optional number
OrElse(o, d) == IF Truthy(o) THEN o[1] ELSE d

Min(S) == CHOOSE m \in S : \A n \in S : m <= n

InSeqOf(x, s) == \E k \in 1..Len(s) : s[k] = x

\* one statement after another: x is evaluated once and its value handed to F
Bind(x, F(_)) == CHOOSE y \in {F(v) : v \in {x}} : TRUE

RECURSIVE SumLoadings(_)
SumLoadings(ls) ==
    IF ls = <<>> THEN 0 ELSE Head(ls).loading_percent + SumLoadings(Tail(ls))

-----------------------------------------------------------------------------
(* RiskCase: audit trail *)

AuditEntry(action, actor, component, field_changed, old_value, new_value, reason, evidence_refs) ==
    [action |-> action, actor |-> actor, component |-> component,
     field_changed |-> field_changed, old_value |-> old_value,
     new_value |-> new_value, reason |-> reason, evidence_refs |-> evidence_refs]

\* log_audit as it would be with the newest entry kept first
log_audit_NewestFirst(rc, entry) ==
    [rc EXCEPT !.audit_trail = <<entry>> \o @]

\* RiskCase.log_audit: append one entry (updated_at is not held)
log_audit(rc, entry) ==
    [rc EXCEPT !.audit_trail = Append(@, entry)]

-----------------------------------------------------------------------------
(* Rating tables *)

\* BMI_LOADING_TABLE in iteration order; bounds in tenths; "DECLINE" is decline = TRUE
BMI_LOADING_TABLE ==
    << [min |-> 0,   max |-> 185,  decline |-> FALSE, loading |-> 25],
       [min |-> 185, max |-> 250,  decline |-> FALSE, loading |-> 0],
       [min |-> 250, max |-> 300,  decline |-> FALSE, loading |-> 25],
       [min |-> 300, max |-> 350,  decline |-> FALSE, loading |-> 50],
       [min |-> 350, max |-> 400,  decline |-> FALSE, loading |-> 100],
       [min |-> 400, max |-> 1000, decline |-> TRUE,  loading |-> 0] >>

\* DIABETES_LOADING_TABLE.get(key): None for a missing key, "DECLINE" as decline = TRUE
DIABETES_LOADING_TABLE(control, dur_key) ==
    CASE control = "controlled" /\ dur_key = "short" -> [decline |-> FALSE, loading |-> 25]
      [] control = "controlled" /\ dur_key = "long"  -> [decline |-> FALSE, loading |-> 50]
      [] control = "suboptimal" /\ dur_key = "short" -> [decline |-> FALSE, loading |-> 75]
      [] control = "suboptimal" /\ dur_key = "long"  -> [decline |-> FALSE, loading |-> 100]
      [] control = "uncontrolled" /\ dur_key = "any" -> [decline |-> TRUE,  loading |-> 0]
      [] OTHER -> [decline |-> FALSE, loading |-> 0]

LoadingReason(category, condition, loading_percent) ==
    [category |-> category, condition |-> condition, loading_percent |-> loading_percent]

\* f"BMI_{bmi_category}"
BMICondition(cat) ==
    CASE cat = "Underweight"    -> "BMI_Underweight"
      [] cat = "Normal"         -> "BMI_Normal"
      [] cat = "Overweight"     -> "BMI_Overweight"
      [] cat = "Obese"          -> "BMI_Obese"
      [] cat = "Morbidly Obese" -> "BMI_Morbidly Obese"
      [] OTHER                  -> "BMI_Unknown"

\* f"Occupation_Class_{occupation_class}"
OccupationCondition(c) ==
    CASE c = 3 -> "Occupation_Class_3"
      [] c = 4 -> "Occupation_Class_4"
      [] OTHER -> "Occupation_Class_5"

-----------------------------------------------------------------------------
(* DeterministicRatingEngine *)

\* _check_auto_decline, age limits
AgeDeclineReasons(rc) ==
    IF rc.identity # None /\ Truthy(Val(rc.identity).age)
    THEN LET age == Val(Val(rc.identity).age)
         IN  (IF age < 18 THEN <<"Age below minimum (18)">> ELSE <<>>)
             \o (IF age > 65 THEN <<"Age above maximum (65)">> ELSE <<>>)
    ELSE <<>>

\* _check_auto_decline, BMI limits
BMIDeclineReasons(rc) ==
    LET bmi == rc.medical.vitals.bmi
    IN  IF bmi # None /\ Truthy(bmi) /\ Val(bmi) > 400
        THEN <<"BMI indicates morbid obesity">> ELSE <<>>

\* _check_auto_decline, uncontrolled diabetes
HbA1cDeclineReasons(rc) ==
    LET hba1c == rc.medical.diabetes.hba1c
    IN  IF hba1c # None /\ Truthy(hba1c) /\ Val(hba1c) > 100
        THEN <<"HbA1c indicates severe uncontrolled diabetes">> ELSE <<>>

\* _check_auto_decline, heavy alcohol
AlcoholDeclineReasons(rc) ==
    IF rc.lifestyle.alcohol.status = "Heavy"
    THEN <<"Heavy alcohol consumption">> ELSE <<>>

\* a plausible slip: the pack-years limit only applies on top of heavy drinking
SmokingDeclineReasons_NeedsAlcohol(rc) ==
    LET smoking == rc.lifestyle.smoking
    IN  IF smoking.status = "Current" /\ Truthy(smoking.pack_years)
           /\ Val(smoking.pack_years) > 30 /\ rc.lifestyle.alcohol.status = "Heavy"
        THEN <<"Heavy smoking history (>30 pack-years)">> ELSE <<>>

\* _check_auto_decline, heavy smoking
SmokingDeclineReasons(rc) ==
    LET smoking == rc.lifestyle.smoking
    IN  IF smoking.status = "Current" /\ Truthy(smoking.pack_years)
           /\ Val(smoking.pack_years) > 30
        THEN <<"Heavy smoking history (>30 pack-years)">> ELSE <<>>

\* the gate as it would be if a refer condition took the case to the underwriter first
_check_auto_decline_UnlessReferred(rc) ==
    IF rc.medical.diabetes.has_complications \/ rc.medical.cardiac.ecg_abnormal
    THEN <<>>
    ELSE AgeDeclineReasons(rc) \o BMIDeclineReasons(rc) \o HbA1cDeclineReasons(rc)
             \o AlcoholDeclineReasons(rc) \o SmokingDeclineReasons(rc)

\* _check_auto_decline: the decline reasons, in the order the code appends them
_check_auto_decline(rc) ==
    AgeDeclineReasons(rc) \o BMIDeclineReasons(rc) \o HbA1cDeclineReasons(rc)
        \o AlcoholDeclineReasons(rc) \o SmokingDeclineReasons(rc)

\* a plausible slip: the `loading > 0` test is left out, so the Normal band
\* appends a 0% loading
BMILoadings_KeepsZero(rc) ==
    LET bmi == rc.medical.vitals.bmi
        T == BMI_LOADING_TABLE
        hits == IF bmi # None /\ Truthy(bmi)
                THEN {i \in 1..Len(T) : /\ T[i].min <= Val(bmi)
                                        /\ Val(bmi) < T[i].max
                                        /\ ~T[i].decline}
                ELSE {}
    IN  IF hits = {} THEN <<>>
        ELSE <<LoadingReason("Medical", BMICondition(rc.medical.vitals.bmi_category),
                             T[Min(hits)].loading)>>

\* the BMI block of _calculate_medical_loadings: first table row that matches, then break
BMILoadings(rc) ==
    LET bmi == rc.medical.vitals.bmi
        T == BMI_LOADING_TABLE
        hits == IF bmi # None /\ Truthy(bmi)
                THEN {i \in 1..Len(T) : /\ T[i].min <= Val(bmi)
                                        /\ Val(bmi) < T[i].max
                                        /\ ~T[i].decline
                                        /\ T[i].loading > 0}
                ELSE {}
    IN  IF hits = {} THEN <<>>
        ELSE <<LoadingReason("Medical", BMICondition(rc.medical.vitals.bmi_category),
                             T[Min(hits)].loading)>>

\* the diabetes block of _calculate_medical_loadings
DiabetesLoadings(rc) ==
    LET hba1c == rc.medical.diabetes.hba1c
    IN  IF hba1c # None /\ Truthy(hba1c)
        THEN LET duration == OrElse(rc.medical.diabetes.duration_years, 0)
                 control == IF Val(hba1c) <= 70 THEN "controlled"
                            ELSE IF Val(hba1c) <= 85 THEN "suboptimal"
                            ELSE "uncontrolled"
                 dur_key == IF duration < 5 THEN "short" ELSE "long"
                 loading == IF control # "uncontrolled"
                            THEN DIABETES_LOADING_TABLE(control, dur_key)
                            ELSE DIABETES_LOADING_TABLE("uncontrolled", "any")
             IN  IF loading.loading # 0 /\ ~loading.decline
                 THEN <<LoadingReason("Medical", "Diabetes", loading.loading)>>
                 ELSE <<>>
        ELSE <<>>

\* the BP block of _calculate_medical_loadings: comparing None with an int is a TypeError
BPRaises(rc) ==
    LET bp_readings == rc.medical.vitals.bp_readings
    IN  /\ bp_readings # <<>>
        /\ LET latest == bp_readings[Len(bp_readings)]
           IN  \/ IsNone(latest.systolic)
               \/ (Val(latest.systolic) < 140 /\ IsNone(latest.diastolic))

\* a plausible slip: `if` where the code has `elif`, so a hypertensive reading
\* is loaded as elevated as well
BPLoadings_IfNotElif(rc) ==
    LET bp_readings == rc.medical.vitals.bp_readings
    IN  IF bp_readings # <<>>
        THEN LET latest == bp_readings[Len(bp_readings)]
                 hyper == \/ Val(latest.systolic) >= 140
                          \/ Val(latest.diastolic) >= 90
                 elevated == \/ Val(latest.systolic) >= 130
                             \/ Val(latest.diastolic) >= 80
             IN  (IF hyper THEN <<LoadingReason("Medical", "Hypertension", 50)>> ELSE <<>>)
                 \o (IF elevated THEN <<LoadingReason("Medical", "Elevated_BP", 25)>>
                     ELSE <<>>)
        ELSE <<>>

BPLoadings(rc) ==
    LET bp_readings == rc.medical.vitals.bp_readings
    IN  IF bp_readings # <<>>
        THEN LET latest == bp_readings[Len(bp_readings)]
                 hyper == \/ Val(latest.systolic) >= 140
                          \/ Val(latest.diastolic) >= 90
                 elevated == \/ Val(latest.systolic) >= 130
                             \/ Val(latest.diastolic) >= 80
             IN  IF hyper THEN <<LoadingReason("Medical", "Hypertension", 50)>>
                 ELSE IF elevated THEN <<LoadingReason("Medical", "Elevated_BP", 25)>>
                 ELSE <<>>
        ELSE <<>>

\* _calculate_medical_loadings: [raised, loadings]
_calculate_medical_loadings(rc) ==
    IF BPRaises(rc)
    THEN [raised |-> TRUE, loadings |-> <<>>]
    ELSE [raised |-> FALSE,
          loadings |-> BMILoadings(rc) \o DiabetesLoadings(rc) \o BPLoadings(rc)]

\* a plausible slip: the light-smoker tier reaches up to 20 pack-years
SmokingLoadings_LightBelow20(rc) ==
    LET smoking == rc.lifestyle.smoking
    IN  IF smoking.status = "Current"
        THEN <<LoadingReason("Lifestyle", "Smoking",
                   IF Truthy(smoking.pack_years) /\ Val(smoking.pack_years) < 20
                   THEN 75 ELSE 100)>>
        ELSE IF smoking.status = "Former"
        THEN IF Truthy(smoking.years_since_quit) /\ Val(smoking.years_since_quit) < 2
             THEN <<LoadingReason("Lifestyle", "Recent_Ex_Smoker", 50)>>
             ELSE IF Truthy(smoking.years_since_quit) /\ Val(smoking.years_since_quit) < 5
             THEN <<LoadingReason("Lifestyle", "Ex_Smoker", 25)>>
             ELSE <<>>
        ELSE <<>>

\* the smoking block of _calculate_lifestyle_loadings
SmokingLoadings(rc) ==
    LET smoking == rc.lifestyle.smoking
    IN  IF smoking.status = "Current"
        THEN <<LoadingReason("Lifestyle", "Smoking",
                   IF Truthy(smoking.pack_years) /\ Val(smoking.pack_years) < 10
                   THEN 75 ELSE 100)>>
        ELSE IF smoking.status = "Former"
        THEN IF Truthy(smoking.years_since_quit) /\ Val(smoking.years_since_quit) < 2
             THEN <<LoadingReason("Lifestyle", "Recent_Ex_Smoker", 50)>>
             ELSE IF Truthy(smoking.years_since_quit) /\ Val(smoking.years_since_quit) < 5
             THEN <<LoadingReason("Lifestyle", "Ex_Smoker", 25)>>
             ELSE <<>>
        ELSE <<>>

\* the alcohol block of _calculate_lifestyle_loadings
AlcoholLoadings(rc) ==
    IF rc.lifestyle.alcohol.status = "Regular"
    THEN <<LoadingReason("Lifestyle", "Regular_Alcohol", 25)>>
    ELSE <<>>

_calculate_lifestyle_loadings(rc) ==
    SmokingLoadings(rc) \o AlcoholLoadings(rc)

\* _calculate_occupation_loadings: [raised, loadings]; None >= 3 is a TypeError
_calculate_occupation_loadings(rc) ==
    LET occ == rc.lifestyle.occupation
    IN  IF IsNone(occ.occupation_class)
        THEN [raised |-> TRUE, loadings |-> <<>>]
        ELSE [raised |-> FALSE,
              loadings |->
                IF Val(occ.occupation_class) >= 3
                THEN <<LoadingReason("Occupation",
                           OccupationCondition(Val(occ.occupation_class)),
                           IF Val(occ.occupation_class) = 3 THEN 25 ELSE 50)>>
                ELSE <<>>]

\* a plausible slip: strict comparisons at the band limits
_determine_risk_class_Strict(total_loading) ==
    IF total_loading = 0 THEN "PREFERRED"
    ELSE IF total_loading < 25 THEN "STANDARD"
    ELSE IF total_loading < 50 THEN "SUBSTANDARD_1"
    ELSE IF total_loading < 75 THEN "SUBSTANDARD_2"
    ELSE IF total_loading < 100 THEN "SUBSTANDARD_3"
    ELSE "SUBSTANDARD_4"

_determine_risk_class(total_loading) ==
    IF total_loading = 0 THEN "PREFERRED"
    ELSE IF total_loading <= 25 THEN "STANDARD"
    ELSE IF total_loading <= 50 THEN "SUBSTANDARD_1"
    ELSE IF total_loading <= 75 THEN "SUBSTANDARD_2"
    ELSE IF total_loading <= 100 THEN "SUBSTANDARD_3"
    ELSE "SUBSTANDARD_4"

ExclusionReason(condition, exclusion_text, duration) ==
    [condition |-> condition, exclusion_text |-> exclusion_text, duration |-> duration]

\* the exclusions as they would be if any diabetes on record were excluded
_determine_exclusions_AnyDiabetes(rc) ==
    IF rc.medical.diabetes.has_complications \/ rc.medical.diabetes.hba1c # None
    THEN <<ExclusionReason("Diabetes_Complications",
                           "Claims related to diabetic complications excluded",
                           "Permanent")>>
    ELSE <<>>

_determine_exclusions(rc) ==
    IF rc.medical.diabetes.has_complications
    THEN <<ExclusionReason("Diabetes_Complications",
                           "Claims related to diabetic complications excluded",
                           "Permanent")>>
    ELSE <<>>

\* the refer conditions as they would be with the threshold itself referred
_check_refer_conditions_FromThreshold(rc, total_loading) ==
    (IF total_loading >= 100
     THEN <<"Total loading exceeds auto-approve threshold">> ELSE <<>>)
    \o (IF rc.medical.diabetes.has_complications
        THEN <<"Diabetic complications require underwriter review">> ELSE <<>>)
    \o (IF rc.medical.cardiac.ecg_abnormal
        THEN <<"Abnormal ECG requires underwriter review">> ELSE <<>>)

\* _check_refer_conditions; the first reason embeds the total
_check_refer_conditions(rc, total_loading) ==
    (IF total_loading > 100
     THEN <<"Total loading exceeds auto-approve threshold">> ELSE <<>>)
    \o (IF rc.medical.diabetes.has_complications
        THEN <<"Diabetic complications require underwriter review">> ELSE <<>>)
    \o (IF rc.medical.cardiac.ecg_abnormal
        THEN <<"Abnormal ECG requires underwriter review">> ELSE <<>>)

RECURSIVE Conditions(_)
Conditions(ls) ==
    IF ls = <<>> THEN <<>> ELSE <<Head(ls).condition>> \o Conditions(Tail(ls))

\* a reasoning text: its fixed lead, the number it embeds, the items it joins
Reasoning(lead, number, items) ==
    [lead |-> lead, number |-> number, items |-> items]

\* _build_reasoning; APPROVE_WITH_EXCLUSION matches no branch and gives ""
_build_reasoning(result) ==
    CASE result.decision = "APPROVE" ->
            Reasoning("Standard risk, no significant loadings.", 0, <<>>)
      [] result.decision = "APPROVE_WITH_LOADING" ->
            Reasoning("Approved with loading. Loadings for:",
                      result.total_loading_percent, Conditions(result.loadings))
      [] result.decision = "DECLINE" ->
            Reasoning("Declined due to:", 0, result.decline_reasons)
      [] result.decision = "REFER" ->
            Reasoning("Referred for manual review:", 0, result.refer_reasons)
      [] OTHER -> Reasoning("", 0, <<>>)

\* a plausible slip: the early return of the decline path comes before the log
_log_rating_SkipsDecline(rc, result) ==
    IF result.decision = "DECLINE" THEN rc
    ELSE log_audit(rc, AuditEntry("RATING_COMPLETED", "SYSTEM",
                                  "DeterministicRatingEngine", None, None,
                                  Some(<<result.decision, result.risk_class,
                                         result.total_loading_percent>>),
                                  result.reasoning, <<>>))

\* the log as it would be if the engine also marked the case as under review
_log_rating_MarksReviewed(rc, result) ==
    log_audit([rc EXCEPT !.underwriting_state.status = "UNDER_REVIEW"],
              AuditEntry("RATING_COMPLETED", "SYSTEM", "DeterministicRatingEngine",
                         None, None,
                         Some(<<result.decision, result.risk_class,
                                result.total_loading_percent>>),
                         result.reasoning, <<>>))

\* _log_rating: one RATING_COMPLETED entry
_log_rating(rc, result) ==
    log_audit(rc, AuditEntry("RATING_COMPLETED", "SYSTEM", "DeterministicRatingEngine",
                             None, None,
                             Some(<<result.decision, result.risk_class,
                                    result.total_loading_percent>>),
                             result.reasoning, <<>>))

RatingResult(decision, risk_class) ==
    [decision |-> decision, risk_class |-> risk_class, loadings |-> <<>>,
     total_loading_percent |-> 0, exclusions |-> <<>>, decline_reasons |-> <<>>,
     refer_reasons |-> <<>>, reasoning |-> Reasoning("", 0, <<>>)]

\* the approve variant as it would be if loadings within the standard band were
\* approved plainly
ApprovalDecision_PlainWithinStandard(loadings, exclusions) ==
    IF SumLoadings(loadings) > 25 THEN "APPROVE_WITH_LOADING"
    ELSE IF exclusions # <<>> THEN "APPROVE_WITH_EXCLUSION"
    ELSE "APPROVE"

\* the decision of rate() for a case with no refer reason
ApprovalDecision(loadings, exclusions) ==
    IF loadings # <<>> \/ exclusions # <<>>
    THEN (IF loadings # <<>> THEN "APPROVE_WITH_LOADING"
          ELSE "APPROVE_WITH_EXCLUSION")
    ELSE "APPROVE"

\* rate(): [risk_case, raised, result]; an exception leaves the case as it was,
\* since the only write (_log_rating) comes last
rate(rc) ==
    LET result0 == RatingResult("APPROVE", "STANDARD")
        decline_reasons == _check_auto_decline(rc)
    IN  IF decline_reasons # <<>>
        THEN LET result == [result0 EXCEPT
                                !.decision = "DECLINE",
                                !.risk_class = "DECLINE",
                                !.decline_reasons = decline_reasons,
                                !.reasoning = Reasoning("Declined:", 0, decline_reasons)]
             IN  [risk_case |-> _log_rating(rc, result), raised |-> FALSE,
                  result |-> Some(result)]
        ELSE
        LET medical == _calculate_medical_loadings(rc)
            occ == _calculate_occupation_loadings(rc)
        IN  IF medical.raised \/ occ.raised
            THEN [risk_case |-> rc, raised |-> TRUE, result |-> None]
            ELSE
            LET loadings == medical.loadings \o _calculate_lifestyle_loadings(rc)
                                \o occ.loadings
                total == SumLoadings(loadings)
                exclusions == _determine_exclusions(rc)
                refer_reasons == _check_refer_conditions(rc, total)
                decision ==
                    IF refer_reasons # <<>> THEN "REFER"
                    ELSE ApprovalDecision(loadings, exclusions)
                result1 == [result0 EXCEPT
                                !.loadings = loadings,
                                !.total_loading_percent = total,
                                !.risk_class = _determine_risk_class(total),
                                !.exclusions = exclusions,
                                !.refer_reasons = refer_reasons,
                                !.decision = decision]
                result == [result1 EXCEPT !.reasoning = _build_reasoning(result1)]
            IN  [risk_case |-> _log_rating(rc, result), raised |-> FALSE,
                 result |-> Some(result)]

-----------------------------------------------------------------------------
(* RiskCase: requirements *)

\* a Requirement; requirement_id f"REQ-{n:04d}" is held as n, triggered_by as the
\* parts of its f-string; description and received_date are not held
Requirement(requirement_id, category, requirement_type, triggered_by) ==
    [requirement_id |-> requirement_id, category |-> category,
     requirement_type |-> requirement_type, status |-> "PENDING",
     mandatory |-> TRUE, triggered_by |-> triggered_by, document_id |-> None]

\* RiskCase.add_requirement
add_requirement(rc, req) ==
    log_audit([rc EXCEPT !.underwriting_state.pending_requirements = Append(@, req)],
              AuditEntry("REQUIREMENT_ADDED", "SYSTEM", "RequirementEngine",
                         Some(<<"pending_requirements">>), None,
                         Some(req.requirement_type), req.triggered_by, <<>>))

\* the position of the first requirement of reqs with the given id, 0 when none has it
FirstWithId(reqs, requirement_id) ==
    IF \E i \in 1..Len(reqs) : reqs[i].requirement_id = requirement_id
    THEN CHOOSE i \in 1..Len(reqs) :
             /\ reqs[i].requirement_id = requirement_id
             /\ \A j \in 1..(i - 1) : reqs[j].requirement_id # requirement_id
    ELSE 0

\* satisfy_requirement as it would be if the entry were logged after the loop
satisfy_requirement_LogsMisses(rc, requirement_id, document_id) ==
    LET reqs == rc.underwriting_state.pending_requirements
        i == FirstWithId(reqs, requirement_id)
    IN  log_audit(IF i = 0 THEN rc
                  ELSE [rc EXCEPT !.underwriting_state.pending_requirements[i] =
                                      [@ EXCEPT !.status = "RECEIVED",
                                                !.document_id = Some(document_id)]],
                  AuditEntry("REQUIREMENT_SATISFIED", "SYSTEM", "EvidenceCollection",
                             Some(<<"requirement", requirement_id, "status">>),
                             IF i = 0 THEN None ELSE Some(reqs[i].status),
                             Some("RECEIVED"), "", <<document_id>>))

\* RiskCase.satisfy_requirement: the first requirement with the id, whatever its
\* status, becomes RECEIVED and takes the document; no requirement with the id, no
\* effect.  The entry is logged with the default reason, the empty string.
satisfy_requirement(rc, requirement_id, document_id) ==
    LET reqs == rc.underwriting_state.pending_requirements
        i == FirstWithId(reqs, requirement_id)
    IN  IF i = 0 THEN rc
        ELSE log_audit([rc EXCEPT !.underwriting_state.pending_requirements[i] =
                                      [@ EXCEPT !.status = "RECEIVED",
                                                !.document_id = Some(document_id)]],
                       AuditEntry("REQUIREMENT_SATISFIED", "SYSTEM", "EvidenceCollection",
                                  Some(<<"requirement", requirement_id, "status">>),
                                  Some(reqs[i].status), Some("RECEIVED"), "",
                                  <<document_id>>))

RECURSIVE AddRequirements(_, _)
AddRequirements(rc, reqs) ==
    IF reqs = <<>> THEN rc
    ELSE Bind(add_requirement(rc, Head(reqs)),
              LAMBDA added : AddRequirements(added, Tail(reqs)))

-----------------------------------------------------------------------------
(* RequirementEngine *)

\* float("inf") as a table bound
Inf == 2147483647

SA_MEDICAL_GRID ==
    << [min |-> 0, max |-> 2500000, tests |-> <<"Basic_Proposal">>],
       [min |-> 2500001, max |-> 5000000, tests |-> <<"Basic_Proposal", "PPBS", "HIV">>],
       [min |-> 5000001, max |-> 10000000,
        tests |-> <<"Full_Medical", "Lipid_Profile", "LFT", "KFT", "HIV">>],
       [min |-> 10000001, max |-> 25000000,
        tests |-> <<"Full_Medical", "ECG", "Lipid_Profile", "LFT", "KFT", "HIV",
                    "HbA1c">>],
       [min |-> 25000001, max |-> 50000000,
        tests |-> <<"Full_Medical", "ECG", "TMT", "Full_Blood", "HIV", "HbA1c",
                    "USG_Abdomen">>],
       [min |-> 50000001, max |-> 100000000,
        tests |-> <<"Full_Medical", "ECG", "2D_Echo", "TMT", "Full_Blood", "HIV",
                    "HbA1c", "CT_Chest">>],
       [min |-> 100000001, max |-> Inf,
        tests |-> <<"Full_Medical", "ECG", "2D_Echo", "TMT", "Full_Blood", "HIV",
                    "HbA1c", "CT_Chest", "Specialist_Opinion">>] >>

AGE_MEDICAL_MODIFIERS ==
    << [min |-> 0, max |-> 35, tests |-> <<>>],
       [min |-> 36, max |-> 45, tests |-> <<"ECG">>],
       [min |-> 46, max |-> 55, tests |-> <<"ECG", "Lipid_Profile", "HbA1c">>],
       [min |-> 56, max |-> 60,
        tests |-> <<"ECG", "TMT", "Lipid_Profile", "HbA1c", "PSA_if_male">>],
       [min |-> 61, max |-> 65,
        tests |-> <<"ECG", "2D_Echo", "TMT", "Full_Blood", "HbA1c">>] >>

\* the rows of DISCLOSURE_REQUIREMENTS that _extract_disclosures can name
DISCLOSURE_REQUIREMENTS(disclosure) ==
    CASE disclosure = "diabetes" ->
            <<"HbA1c", "FBS", "PPBS", "KFT", "Urine_ACR", "Fundoscopy">>
      [] disclosure = "hypertension" -> <<"ECG", "2D_Echo", "KFT", "Fundoscopy">>
      [] disclosure = "smoking" -> <<"Cotinine_Test">>
      [] disclosure = "heavy_alcohol" -> <<"GGT", "MCV", "Liver_Screen">>

SA_INCOME_RATIO_REQUIREMENTS ==
    << [min |-> 0, max |-> 10, docs |-> <<"Income_Declaration">>],
       [min |-> 10, max |-> 15, docs |-> <<"Income_Declaration", "ITR_1year">>],
       [min |-> 15, max |-> 20, docs |-> <<"ITR_2years", "Bank_Statement_6months">>],
       [min |-> 20, max |-> 25,
        docs |-> <<"ITR_3years", "Bank_Statement_12months", "CA_Certificate">>],
       [min |-> 25, max |-> Inf,
        docs |-> <<"ITR_3years", "Networth_Statement", "Special_Approval">>] >>

\* _extract_disclosures; "hypertension" in str(conditions).lower()
_extract_disclosures(rc) ==
    (IF rc.medical.diabetes.is_diabetic \in {"Yes", "Prediabetic"}
     THEN <<"diabetes">> ELSE <<>>)
    \o (IF rc.lifestyle.smoking.status = "Current" THEN <<"smoking">> ELSE <<>>)
    \o (IF rc.lifestyle.alcohol.status = "Heavy" THEN <<"heavy_alcohol">> ELSE <<>>)
    \o (IF InSeqOf("Hypertension", rc.medical.history.conditions)
        THEN <<"hypertension">> ELSE <<>>)

RECURSIVE Types(_)
Types(reqs) ==
    IF reqs = <<>> THEN {} ELSE {Head(reqs).requirement_type} \cup Types(Tail(reqs))

\* the loop as it would be without the `if test not in existing` test
RECURSIVE AppendTests_NeverSkips(_, _, _, _, _)
AppendTests_NeverSkips(acc, tests, category, triggered_by, unique) ==
    IF tests = <<>> THEN acc
    ELSE Bind([reqs |-> Append(acc.reqs,
                               Requirement(acc.counter + 1, category, Head(tests),
                                           triggered_by)),
               counter |-> acc.counter + 1],
              LAMBDA next : AppendTests_NeverSkips(next, Tail(tests), category,
                                                   triggered_by, unique))

\* one `for test in tests:` loop of determine: acc is [reqs, counter]; with
\* unique, a test whose type is already in reqs is skipped
RECURSIVE AppendTests(_, _, _, _, _)
AppendTests(acc, tests, category, triggered_by, unique) ==
    IF tests = <<>> THEN acc
    ELSE IF unique /\ Head(tests) \in Types(acc.reqs)
    THEN AppendTests(acc, Tail(tests), category, triggered_by, unique)
    ELSE Bind([reqs |-> Append(acc.reqs,
                               Requirement(acc.counter + 1, category, Head(tests),
                                           triggered_by)),
               counter |-> acc.counter + 1],
              LAMBDA next : AppendTests(next, Tail(tests), category, triggered_by,
                                        unique))

\* the band lookup as it would be with the lower bound tested alone
FirstBand_LowerBoundOnly(T, x) ==
    LET hits == {i \in 1..Len(T) : T[i].min <= x}
    IN  IF hits = {} THEN {} ELSE {Min(hits)}

\* first row of a band table whose [min, max] holds x, as a set of at most one index
FirstBand(T, x) ==
    LET hits == {i \in 1..Len(T) : T[i].min <= x /\ x <= T[i].max}
    IN  IF hits = {} THEN {} ELSE {Min(hits)}

\* first row of the ratio table with min <= sa / income < max, for income > 0
FirstRatioBand(T, sa, income) ==
    LET hits == {i \in 1..Len(T) : /\ T[i].min * income <= sa
                                   /\ (T[i].max = Inf \/ sa < T[i].max * income)}
    IN  IF hits = {} THEN {} ELSE {Min(hits)}

\* step 1 of determine: the sum-assured slab
SlabRequirements(acc, sa) ==
    LET T == SA_MEDICAL_GRID
        band == FirstBand(T, sa)
    IN  IF band = {} THEN acc
        ELSE LET b == T[Min(band)]
             IN  AppendTests(acc, b.tests, "MEDICAL", <<"SA_SLAB", b.min, b.max>>, FALSE)

\* step 2 of determine as it would be with a missing age rated as the oldest band
AgeRequirements_MissingAsOldest(acc, identity) ==
    LET T == AGE_MEDICAL_MODIFIERS
        band == IF identity # None /\ Truthy(Val(identity).age)
                THEN FirstBand(T, Val(Val(identity).age))
                ELSE {Len(T)}
    IN  IF band = {} THEN acc
        ELSE LET b == T[Min(band)]
             IN  AppendTests(acc, b.tests, "MEDICAL", <<"AGE_BAND", b.min, b.max>>, TRUE)

\* step 2 of determine: the age band
AgeRequirements(acc, identity) ==
    IF identity # None /\ Truthy(Val(identity).age)
    THEN LET T == AGE_MEDICAL_MODIFIERS
             band == FirstBand(T, Val(Val(identity).age))
         IN  IF band = {} THEN acc
             ELSE LET b == T[Min(band)]
                  IN  AppendTests(acc, b.tests, "MEDICAL",
                                  <<"AGE_BAND", b.min, b.max>>, TRUE)
    ELSE acc

\* step 3 of determine: the disclosure triggers
RECURSIVE DisclosureRequirements(_, _)
DisclosureRequirements(acc, disclosures) ==
    IF disclosures = <<>> THEN acc
    ELSE Bind(AppendTests(acc, DISCLOSURE_REQUIREMENTS(Head(disclosures)), "MEDICAL",
                          <<"DISCLOSURE", Head(disclosures)>>, TRUE),
              LAMBDA next : DisclosureRequirements(next, Tail(disclosures)))

\* step 4 of determine: the financial requirements
FinancialRequirements(acc, rc, sa) ==
    LET declared == rc.financial.income.declared_annual
    IN  IF declared # None
        THEN IF Truthy(declared) /\ Val(declared) > 0
             THEN LET T == SA_INCOME_RATIO_REQUIREMENTS
                      band == FirstRatioBand(T, sa, Val(declared))
                  IN  IF band = {} THEN acc
                      ELSE LET b == T[Min(band)]
                           IN  AppendTests(acc, b.docs, "FINANCIAL",
                                           <<"INCOME_RATIO", b.min, b.max>>, FALSE)
             ELSE acc
        ELSE AppendTests(acc, <<"Income_Declaration", "PAN_Verification">>,
                         "FINANCIAL", <<"DEFAULT">>, FALSE)

RequirementSet(medical, financial, kyc, third_party) ==
    [medical_requirements |-> medical, financial_requirements |-> financial,
     kyc_requirements |-> kyc, third_party_requirements |-> third_party]

all_requirements(rs) ==
    rs.medical_requirements \o rs.financial_requirements \o rs.kyc_requirements
        \o rs.third_party_requirements

total_count(rs) == Len(all_requirements(rs))

\* steps 1 to 3 of determine: the medical requirements
MedicalRequirements(rc, counter, sa) ==
    Bind(SlabRequirements([reqs |-> <<>>, counter |-> counter], sa),
         LAMBDA slab :
    Bind(AgeRequirements(slab, rc.identity),
         LAMBDA aged : DisclosureRequirements(aged, _extract_disclosures(rc))))

\* steps 5 and 6 of determine: the KYC documents, always required
KYCRequirements(counter) ==
    AppendTests([reqs |-> <<>>, counter |-> counter],
                <<"Aadhaar_Verification", "PAN_Verification", "Photo_ID">>,
                "KYC", <<"MANDATORY_KYC">>, FALSE)

\* and the third-party checks, always required
ThirdPartyRequirements(counter) ==
    AppendTests([reqs |-> <<>>, counter |-> counter],
                <<"CIBIL_Score", "IIB_Claims_Check">>,
                "THIRD_PARTY", <<"MANDATORY_BUREAU">>, FALSE)

\* the end of determine as it would be with the summary written after the loop
RecordRequirements_SummaryLast(rc, sa, result) ==
    Bind(AddRequirements(rc, all_requirements(result)),
         LAMBDA added :
             log_audit(added, AuditEntry("REQUIREMENTS_DETERMINED", "SYSTEM",
                                         "RequirementEngine", None, None,
                                         Some(total_count(result)),
                                         <<"SA", sa, "Age",
                                           IF rc.identity = None THEN None
                                           ELSE Val(rc.identity).age>>,
                                         <<>>)))

\* the end of determine: the REQUIREMENTS_DETERMINED entry, then every requirement
\* added to the case
RecordRequirements(rc, sa, result) ==
    Bind(log_audit(rc, AuditEntry("REQUIREMENTS_DETERMINED", "SYSTEM",
                                  "RequirementEngine", None, None,
                                  Some(total_count(result)),
                                  <<"SA", sa, "Age",
                                    IF rc.identity = None THEN None
                                    ELSE Val(rc.identity).age>>,
                                  <<>>)),
         LAMBDA logged : AddRequirements(logged, all_requirements(result)))

\* RequirementEngine.determine: [risk_case, req_counter, result]
determine(rc, counter) ==
    IF rc.proposal = None
    THEN [risk_case |-> rc, req_counter |-> counter,
          result |-> RequirementSet(<<>>, <<>>, <<>>, <<>>)]
    ELSE
    Bind(Val(rc.proposal).sum_assured, LAMBDA sa :
    Bind(MedicalRequirements(rc, counter, sa), LAMBDA medical :
    Bind(FinancialRequirements([reqs |-> <<>>, counter |-> medical.counter], rc, sa),
         LAMBDA financial :
    Bind(KYCRequirements(financial.counter), LAMBDA kyc :
    Bind(ThirdPartyRequirements(kyc.counter), LAMBDA third :
    Bind(RequirementSet(medical.reqs, financial.reqs, kyc.reqs, third.reqs),
         LAMBDA result :
             [risk_case |-> RecordRequirements(rc, sa, result),
              req_counter |-> third.counter,
              result |-> result]))))))

-----------------------------------------------------------------------------
(* LLMAdvisor *)

\* what the advisory call meets: no client, a call that raises, or a JSON response;
\* formats is whether the response's confidence_score is a number that the
\* console line f"{advisory.confidence:.0%}" can format
LLMOutcome(client, responds, recommendation_narrative, overall_assessment, formats) ==
    [client |-> client, responds |-> responds,
     recommendation_narrative |-> recommendation_narrative,
     overall_assessment |-> overall_assessment, formats |-> formats]

LLMOutcomes ==
    {LLMOutcome(FALSE, FALSE, "", "", TRUE),
     LLMOutcome(TRUE, FALSE, "", "", TRUE),
     LLMOutcome(TRUE, TRUE, "Consider approval at standard terms.", "low_risk", TRUE),
     LLMOutcome(TRUE, TRUE, "Suggest underwriter review.", "high_risk", TRUE),
     LLMOutcome(TRUE, TRUE, "Suggest underwriter review.", "high_risk", FALSE)}

LLMAdvisory(source, recommendation, risk_narrative, evidence_cited) ==
    [source |-> source, recommendation |-> recommendation,
     risk_narrative |-> risk_narrative, evidence_cited |-> evidence_cited]

\* _parse_response up to its log_audit: [risk_case, advisory]
_parse_response(response, rc) ==
    LET advisory == LLMAdvisory("LLM", response.recommendation_narrative,
                                response.overall_assessment, <<>>)
    IN  [risk_case |-> log_audit(rc, AuditEntry("LLM_ADVISORY_RECEIVED", "LLM",
                                                "LLMAdvisor", None, None,
                                                Some(advisory.risk_narrative),
                                                advisory.recommendation, <<>>)),
         advisory |-> advisory]

\* _fallback_advisory: [risk_case, advisory]
_fallback_advisory(rc) ==
    LET bmi == rc.medical.vitals.bmi
        hba1c == rc.medical.diabetes.hba1c
        risk_factors ==
            (IF Truthy(bmi) /\ Val(bmi) > 300 THEN <<"Elevated BMI">> ELSE <<>>)
            \o (IF Truthy(hba1c) /\ Val(hba1c) > 70
                THEN <<"Suboptimal diabetes control">>
                ELSE IF Truthy(hba1c) /\ Val(hba1c) > 65 THEN <<"Diabetic">>
                ELSE <<>>)
            \o (IF rc.lifestyle.smoking.status = "Current"
                THEN <<"Current smoker">> ELSE <<>>)
        advisory ==
            IF risk_factors = <<>>
            THEN LLMAdvisory("FALLBACK",
                             "No significant risk factors identified. Standard terms may apply.",
                             "low_risk", risk_factors)
            ELSE IF Len(risk_factors) <= 2
            THEN LLMAdvisory("FALLBACK",
                             "Some risk factors present. Consider loading or review.",
                             "moderate_risk", risk_factors)
            ELSE LLMAdvisory("FALLBACK",
                             "Multiple risk factors. Recommend underwriter review.",
                             "high_risk", risk_factors)
    IN  [risk_case |-> log_audit(rc, AuditEntry("LLM_ADVISORY_FALLBACK", "SYSTEM",
                                                "LLMAdvisor", None, None,
                                                Some(advisory.risk_narrative),
                                                "LLM unavailable, using rule-based fallback",
                                                <<>>)),
         advisory |-> advisory]

\* advise: [risk_case, advisory].  Any exception inside the try, the console line
\* after _parse_response's log_audit included, falls through to the fallback.
advise(rc, llm) ==
    IF llm.client /\ llm.responds
    THEN Bind(_parse_response(llm, rc),
              LAMBDA parsed : IF llm.formats THEN parsed
                              ELSE _fallback_advisory(parsed.risk_case))
    ELSE _fallback_advisory(rc)

-----------------------------------------------------------------------------
(* ProductionPipeline *)

\* BASE_RATES, per 1000 of sum assured, in hundredths
BASE_RATES ==
    << [min_age |-> 18, max_age |-> 25, rate |-> 120],
       [min_age |-> 26, max_age |-> 30, rate |-> 150],
       [min_age |-> 31, max_age |-> 35, rate |-> 190],
       [min_age |-> 36, max_age |-> 40, rate |-> 250],
       [min_age |-> 41, max_age |-> 45, rate |-> 330],
       [min_age |-> 46, max_age |-> 50, rate |-> 450],
       [min_age |-> 51, max_age |-> 55, rate |-> 620],
       [min_age |-> 56, max_age |-> 60, rate |-> 850],
       [min_age |-> 61, max_age |-> 65, rate |-> 1180] >>

\* the default base_rate of _construct_offer (2.50), in hundredths
DefaultBaseRate == 250

\* the age _construct_offer prices a case without identity at
DefaultAge == 35

\* floor(a * b / c) without forming a * b
MulDiv(a, b, c) == (a \div c) * b + ((a % c) * b) \div c

\* the `for (min_age, max_age), rate in BASE_RATES.items()` loop
BaseRateFor(age) ==
    LET hits == {i \in 1..Len(BASE_RATES) :
                     BASE_RATES[i].min_age <= age /\ age <= BASE_RATES[i].max_age}
    IN  IF hits = {} THEN DefaultBaseRate ELSE BASE_RATES[Min(hits)].rate

UnderwritingOffer(decision, risk_class, reasoning, llm_advisory_summary, audit_trail_count) ==
    [decision |-> decision, risk_class |-> risk_class, reasoning |-> reasoning,
     llm_advisory_summary |-> llm_advisory_summary,
     audit_trail_count |-> audit_trail_count,
     sum_assured |-> 0, base_premium_annual |-> 0, loadings |-> <<>>,
     total_loading_percent |-> 0, loaded_premium_annual |-> 0, exclusions |-> <<>>]

PricingBasis(base_rate_per_1000, offer) ==
    [base_rate_per_1000 |-> base_rate_per_1000,
     base_premium_annual |-> offer.base_premium_annual,
     total_loading_percent |-> offer.total_loading_percent,
     loaded_premium_annual |-> offer.loaded_premium_annual,
     exclusions |-> offer.exclusions,
     risk_class |-> offer.risk_class]

\* a plausible slip: the offer is built from the advisory where it has one
OfferHead_FollowsAdvisory(rc, rating_result, advisory) ==
    UnderwritingOffer(IF advisory.risk_narrative = "high_risk" THEN "REFER"
                      ELSE rating_result.decision,
                      rating_result.risk_class, rating_result.reasoning,
                      advisory.recommendation, Len(rc.audit_trail))

\* the UnderwritingOffer(...) constructor call of _construct_offer
OfferHead(rc, rating_result, advisory) ==
    UnderwritingOffer(rating_result.decision, rating_result.risk_class,
                      rating_result.reasoning, advisory.recommendation,
                      Len(rc.audit_trail))

\* a plausible slip: every decision but DECLINE is priced
IsPriced_AllButDecline(decision) == decision # "DECLINE"

\* the `if rating_result.decision in [...]` test of _construct_offer
IsPriced(decision) ==
    decision \in {"APPROVE", "APPROVE_WITH_LOADING", "APPROVE_WITH_EXCLUSION"}

\* the dicts of offer.loadings; the reason text of a loading is not held
RECURSIVE OfferLoadings(_)
OfferLoadings(ls) ==
    IF ls = <<>> THEN <<>>
    ELSE <<[condition |-> Head(ls).condition, percent |-> Head(ls).loading_percent]>>
             \o OfferLoadings(Tail(ls))

RECURSIVE ExclusionTexts(_)
ExclusionTexts(es) ==
    IF es = <<>> THEN <<>> ELSE <<Head(es).exclusion_text>> \o ExclusionTexts(Tail(es))

\* _construct_offer: [risk_case, raised, offer].  `min_age <= age` raises TypeError
\* when identity is present and its age is None.
_construct_offer(rc, rating_result, advisory) ==
    LET offer == OfferHead(rc, rating_result, advisory)
    IN  IF ~IsPriced(rating_result.decision)
        THEN [risk_case |-> rc, raised |-> FALSE, offer |-> Some(offer)]
        ELSE IF rc.identity # None /\ Val(rc.identity).age = None
        THEN [risk_case |-> rc, raised |-> TRUE, offer |-> None]
        ELSE
        LET sa == IF rc.proposal # None THEN Val(rc.proposal).sum_assured ELSE 0
            age == IF rc.identity # None THEN Val(Val(rc.identity).age) ELSE DefaultAge
            base_rate == BaseRateFor(age)
            base_premium_annual == MulDiv(sa, base_rate, 1000)
            loading_amount ==
                MulDiv(base_premium_annual, rating_result.total_loading_percent, 100)
            priced == [offer EXCEPT
                           !.sum_assured = sa,
                           !.base_premium_annual = base_premium_annual,
                           !.loadings = OfferLoadings(rating_result.loadings),
                           !.total_loading_percent = rating_result.total_loading_percent,
                           !.loaded_premium_annual = base_premium_annual + loading_amount,
                           !.exclusions = ExclusionTexts(rating_result.exclusions)]
        IN  [risk_case |-> [rc EXCEPT !.pricing_basis =
                                          Some(PricingBasis(base_rate, priced))],
             raised |-> FALSE, offer |-> Some(priced)]

\* the final status as it would be if only a plain APPROVE closed the case
FinalStatus_PlainApproveOnly(decision) ==
    IF decision = "APPROVE" THEN "APPROVED"
    ELSE IF decision = "DECLINE" THEN "DECLINED"
    ELSE "REFERRED"

\* the status process leaves the case in
FinalStatus(decision) ==
    IF decision \in {"APPROVE", "APPROVE_WITH_LOADING"} THEN "APPROVED"
    ELSE IF decision = "DECLINE" THEN "DECLINED"
    ELSE "REFERRED"

\* process from the advisory on, for a case that rate() returned a result for
Conclude(rc, counter, rating_result, llm) ==
    Bind(advise(rc, llm), LAMBDA advised :
    Bind(_construct_offer(advised.risk_case, rating_result, advised.advisory),
         LAMBDA constructed :
        IF constructed.raised
        THEN [risk_case |-> constructed.risk_case, req_counter |-> counter,
              raised |-> TRUE, offer |-> None, rating |-> Some(rating_result),
              advisory |-> Some(advised.advisory)]
        ELSE
        Bind(Val(constructed.offer), LAMBDA offer :
        Bind([constructed.risk_case EXCEPT
                  !.underwriting_state.status = FinalStatus(rating_result.decision)],
             LAMBDA decided :
            [risk_case |-> log_audit(decided,
                                     AuditEntry("PIPELINE_COMPLETED", "SYSTEM",
                                                "ProductionPipeline", None, None,
                                                Some(offer.decision),
                                                offer.reasoning, <<>>)),
             req_counter |-> counter,
             raised |-> FALSE, offer |-> Some(offer), rating |-> Some(rating_result),
             advisory |-> Some(advised.advisory)]))))

\* process: [risk_case, req_counter, raised, offer, rating, advisory].  An exception
\* of rate or _construct_offer propagates; what was written before it stays.
process(rc, counter, llm) ==
    Bind(log_audit(rc, AuditEntry("PIPELINE_STARTED", "SYSTEM", "ProductionPipeline",
                                  None, None, None, "", <<>>)),
         LAMBDA started :
    Bind(determine(started, counter), LAMBDA determined :
    Bind([determined.risk_case EXCEPT !.underwriting_state.status = "UNDER_REVIEW"],
         LAMBDA reviewing :
    Bind(rate(reviewing), LAMBDA rated :
        IF rated.raised
        THEN [risk_case |-> rated.risk_case, req_counter |-> determined.req_counter,
              raised |-> TRUE, offer |-> None, rating |-> None, advisory |-> None]
        ELSE Conclude(rated.risk_case, determined.req_counter, Val(rated.result),
                      llm)))))

-----------------------------------------------------------------------------
(* Building a RiskCase from evidence *)

_categorize_bmi(bmi) ==
    IF ~Truthy(bmi) THEN "Unknown"
    ELSE IF Val(bmi) < 185 THEN "Underweight"
    ELSE IF Val(bmi) < 250 THEN "Normal"
    ELSE IF Val(bmi) < 300 THEN "Overweight"
    ELSE IF Val(bmi) < 350 THEN "Obese"
    ELSE "Morbidly Obese"

BPReading(systolic, diastolic) == [systolic |-> systolic, diastolic |-> diastolic]

\* `EvidenceValue(value=x) if x else None`
EvidenceIfTruthy(o) == IF Truthy(o) THEN o ELSE None

\* create_risk_case_from_synthetic: the RiskCase the loader builds from an evidence
\* profile p.  The fields the loader leaves at their dataclass defaults
\* (has_complications, ecg_abnormal, years_since_quit, history.conditions, earlier
\* BP readings) and an absent identity or proposal are the evidence producer's to
\* set; the profile carries them too.
create_risk_case_from_synthetic(p) ==
    [identity |-> IF p.identity THEN Some([age |-> p.age]) ELSE None,
     proposal |-> IF p.proposal = None THEN None
                  ELSE Some([sum_assured |-> Val(p.proposal)]),
     medical |->
        [vitals |-> [bmi |-> EvidenceIfTruthy(p.bmi),
                     bmi_category |-> _categorize_bmi(p.bmi),
                     bp_readings |-> p.bp],
         diabetes |-> [is_diabetic |-> p.declared,
                       hba1c |-> EvidenceIfTruthy(p.diabetes.hba1c),
                       duration_years |-> p.diabetes.duration_years,
                       has_complications |-> p.refer.has_complications],
         cardiac |-> [ecg_abnormal |-> p.refer.ecg_abnormal],
         history |-> [conditions |-> p.history]],
     lifestyle |->
        [smoking |-> p.smoking,
         alcohol |-> [status |-> p.alcohol],
         occupation |-> [occupation_class |-> p.occupation]],
     financial |-> [income |-> [declared_annual |-> EvidenceIfTruthy(p.income)]],
     underwriting_state |-> [status |-> "DRAFT", pending_requirements |-> <<>>],
     pricing_basis |-> None,
     audit_trail |-> <<AuditEntry("RISK_CASE_CREATED", "SYSTEM", "SyntheticDataLoader",
                                  None, None, None, "Created from synthetic data", <<>>)>>]

Smoking(status, pack_years, years_since_quit) ==
    [status |-> status, pack_years |-> pack_years, years_since_quit |-> years_since_quit]

\* the benign profile of main.py (Priya Sharma)
ProfileA ==
    [identity |-> TRUE, age |-> Some(36), proposal |-> Some(15000000),
     bmi |-> Some(221), bp |-> <<BPReading(Some(118), Some(78))>>,
     declared |-> "No", diabetes |-> [hba1c |-> None, duration_years |-> None],
     refer |-> [has_complications |-> FALSE, ecg_abnormal |-> FALSE],
     history |-> <<>>,
     smoking |-> Smoking("Never", None, None), alcohol |-> "Social",
     occupation |-> Some(1), income |-> Some(2400000)]

\* the high-risk profile of main.py (Rahul Mehta)
ProfileB ==
    [ProfileA EXCEPT !.age = Some(45), !.bmi = Some(310), !.declared = "Type 2",
                     !.diabetes = [hba1c |-> Some(82), duration_years |-> None],
                     !.smoking = Smoking("Current", Some(15), None),
                     !.bp = <<BPReading(Some(145), Some(95))>>]

Baselines == {ProfileA, ProfileB}

\* the values each evidence group ranges over; with faults, also the values that
\* break the declared field types (occupation_class: int, BPReading.systolic: int)
Ages == {None} \cup {Some(a) : a \in {0, 17, 18, 36, 45, 65, 66}}
BMIs == {None} \cup {Some(b) : b \in {180, 221, 250, 310, 350, 400, 401}}
Diabetes ==
    {[hba1c |-> None, duration_years |-> None],
     [hba1c |-> Some(62), duration_years |-> Some(2)],
     [hba1c |-> Some(62), duration_years |-> Some(5)],
     [hba1c |-> Some(82), duration_years |-> None],
     [hba1c |-> Some(82), duration_years |-> Some(5)],
     [hba1c |-> Some(90), duration_years |-> None],
     [hba1c |-> Some(101), duration_years |-> None]}
BPs(faults) ==
    {<<>>,
     <<BPReading(Some(118), Some(78))>>,
     <<BPReading(Some(135), Some(75))>>,
     <<BPReading(Some(120), Some(95))>>,
     <<BPReading(Some(145), Some(95))>>,
     <<BPReading(Some(145), Some(95)), BPReading(Some(118), Some(78))>>}
    \cup (IF faults
          THEN {<<BPReading(None, Some(78))>>, <<BPReading(Some(118), None)>>,
                <<BPReading(Some(145), None)>>}
          ELSE {})
Smokings ==
    {Smoking("Never", None, None)}
    \cup {Smoking("Current", py, None) : py \in {None, Some(0), Some(5), Some(10),
                                                  Some(15), Some(31)}}
    \cup {Smoking("Former", None, y) : y \in {None, Some(0), Some(1), Some(2), Some(5)}}
Alcohols == {"Never", "Social", "Regular", "Heavy"}
Occupations(faults) ==
    {Some(1), Some(3), Some(4)} \cup (IF faults THEN {None} ELSE {})
Refers == [has_complications : BOOLEAN, ecg_abnormal : BOOLEAN]
Proposals == {None, Some(0), Some(1000000), Some(15000000), Some(30000000)}
Incomes == {None, Some(0), Some(600000), Some(2400000)}
Declareds == {"No", "Yes", "Prediabetic", "Type 2"}
Histories == {<<>>, <<"Hypertension">>}

RatingGroups == {"age", "bmi", "diabetes", "bp", "smoking", "alcohol", "occupation",
                 "refer"}
AllGroups == RatingGroups \cup {"identity", "proposal", "income", "declared", "history"}

\* the profiles that differ from base in the groups of S only
ProfilesFrom(base, S, faults) ==
    [identity : IF "identity" \in S THEN BOOLEAN ELSE {base.identity},
     age : IF "age" \in S THEN Ages ELSE {base.age},
     proposal : IF "proposal" \in S THEN Proposals ELSE {base.proposal},
     bmi : IF "bmi" \in S THEN BMIs ELSE {base.bmi},
     bp : IF "bp" \in S THEN BPs(faults) ELSE {base.bp},
     declared : IF "declared" \in S THEN Declareds ELSE {base.declared},
     diabetes : IF "diabetes" \in S THEN Diabetes ELSE {base.diabetes},
     refer : IF "refer" \in S THEN Refers ELSE {base.refer},
     history : IF "history" \in S THEN Histories ELSE {base.history},
     smoking : IF "smoking" \in S THEN Smokings ELSE {base.smoking},
     alcohol : IF "alcohol" \in S THEN Alcohols ELSE {base.alcohol},
     occupation : IF "occupation" \in S THEN Occupations(faults) ELSE {base.occupation},
     income : IF "income" \in S THEN Incomes ELSE {base.income}]

\* every profile within maxdev groups of a baseline
Profiles(groups, maxdev, faults) ==
    UNION {ProfilesFrom(base, S, faults) :
               base \in Baselines,
               S \in {T \in SUBSET groups : Cardinality(T) <= maxdev}}

\* every well-typed profile that differs from a baseline in one group of groups
SingleDeviations(groups) ==
    UNION {ProfilesFrom(base, {g}, FALSE) : base \in Baselines, g \in groups}

-----------------------------------------------------------------------------
(* State machine *)

InitOf(cases, totals) ==
    /\ risk_case \in cases
    /\ req_counter = 0
    /\ ratings = <<>>
    /\ offers = <<>>
    /\ twin = [risk_case |-> risk_case, run |-> None]
    /\ loading_in \in totals
    /\ class_out = None
    /\ calls = <<>>

\* one direct call of DeterministicRatingEngine.rate on the case
Rate ==
    /\ Len(ratings) < MaxRates
    /\ LET r == rate(risk_case)
       IN  /\ risk_case' = r.risk_case
           /\ ratings' = Append(ratings,
                                [raised |-> r.raised, result |-> r.result,
                                 audit_before |-> Len(risk_case.audit_trail),
                                 audit_after |-> Len(r.risk_case.audit_trail)])
    /\ UNCHANGED <<req_counter, offers, twin, loading_in, class_out, calls>>

\* rate() on cases whose evidence keeps the declared field types
InitRate ==
    InitOf({create_risk_case_from_synthetic(p) : p \in Profiles(RatingGroups, MaxDev, FALSE)},
           {<<0, 1>>})
NextRate == Rate
SpecRate == InitRate /\ [][NextRate]_vars

\* rate() on cases whose evidence may also miss a numeric field
InitFault ==
    InitOf({create_risk_case_from_synthetic(p) : p \in Profiles(RatingGroups, MaxDev, TRUE)},
           {<<0, 1>>})
SpecFault == InitFault /\ [][NextRate]_vars

\* _determine_risk_class applied to two neighbouring totals
DetermineRiskClass ==
    /\ class_out = None
    /\ class_out' = Some(<<_determine_risk_class(loading_in[1]),
                           _determine_risk_class(loading_in[2])>>)
    /\ UNCHANGED <<risk_case, req_counter, ratings, offers, twin, loading_in, calls>>

\* the risk class, both as rate() assigns it to a case and as the function of any
\* total loading up to MaxLoading
InitClass ==
    \/ InitOf({create_risk_case_from_synthetic(p) :
                   p \in SingleDeviations(RatingGroups)},
              {<<0, 1>>})
    \/ InitOf({create_risk_case_from_synthetic(ProfileA)},
              {<<t, t + 1>> : t \in 1..MaxLoading})
NextClass == DetermineRiskClass \/ Rate
SpecClass == InitClass /\ [][NextClass]_vars

\* one run of ProductionPipeline.process on the case, against whatever the advisory
\* call meets
Process ==
    /\ Len(offers) < MaxRuns
    /\ \E llm \in LLMOutcomes :
          \E r \in {process(risk_case, req_counter, llm)} :
              /\ risk_case' = r.risk_case
              /\ req_counter' = r.req_counter
              /\ offers' = Append(offers,
                                  [raised |-> r.raised, offer |-> r.offer,
                                   rating |-> r.rating, advisory |-> r.advisory,
                                   audit_before |-> Len(risk_case.audit_trail),
                                   audit_after |-> Len(r.risk_case.audit_trail)])
    /\ UNCHANGED <<ratings, twin, loading_in, class_out, calls>>

\* the pipeline on every case that differs from a baseline in one evidence group
Init ==
    InitOf({create_risk_case_from_synthetic(p) :
                p \in SingleDeviations(AllGroups)},
           {<<0, 1>>})
Next == Process
Spec == Init /\ [][Next]_vars

\* one run of process on the second case, by a second ProductionPipeline (whose
\* RequirementEngine counts from 0), against whatever its advisory call meets
ProcessTwin ==
    /\ twin.run = None
    /\ \E llm \in LLMOutcomes :
          \E r \in {process(twin.risk_case, 0, llm)} :
              twin' = [risk_case |-> r.risk_case,
                       run |-> Some([raised |-> r.raised, offer |-> r.offer,
                                     rating |-> r.rating, advisory |-> r.advisory,
                                     audit_before |-> Len(twin.risk_case.audit_trail),
                                     audit_after |-> Len(r.risk_case.audit_trail)])]
    /\ UNCHANGED <<risk_case, req_counter, ratings, offers, loading_in, class_out, calls>>

\* two cases of identical evidence and proposal, each run through a pipeline
NextAdvisory == Process \/ ProcessTwin
SpecAdvisory == Init /\ [][NextAdvisory]_vars

\* what a direct call leaves in calls
Call(op, arg, result) == [op |-> op, arg |-> arg, result |-> result]

\* an entry a caller of log_audit writes itself
CallerEntries ==
    {AuditEntry("MANUAL_NOTE", "UNDERWRITER", "Workbench", None, None, None,
                "Reviewed by underwriter", <<>>)}

\* requirements a caller of add_requirement builds itself: one with the default
\* status, one constructed with another status
CallerRequirements ==
    {Requirement(901, "MEDICAL", "ECG", <<"MANUAL">>),
     [Requirement(902, "MEDICAL", "TMT", <<"MANUAL">>) EXCEPT !.status = "WAIVED"]}

\* the ids satisfy_requirement is called with: the first id a RequirementEngine
\* hands out and the callers' ids
SatisfiedIds == {1, 901, 902}

\* one direct call of RiskCase.log_audit
LogAudit ==
    /\ \E entry \in CallerEntries :
          /\ risk_case' = log_audit(risk_case, entry)
          /\ calls' = Append(calls, Call("log_audit", entry, None))
    /\ UNCHANGED <<req_counter, ratings, offers, twin, loading_in, class_out>>

\* one direct call of RiskCase.add_requirement
AddRequirement ==
    /\ \E req \in CallerRequirements :
          /\ risk_case' = add_requirement(risk_case, req)
          /\ calls' = Append(calls, Call("add_requirement", req, None))
    /\ UNCHANGED <<req_counter, ratings, offers, twin, loading_in, class_out>>

\* one direct call of RiskCase.satisfy_requirement; every call brings a document of
\* its own
SatisfyRequirement ==
    /\ \E requirement_id \in SatisfiedIds :
          /\ risk_case' = satisfy_requirement(risk_case, requirement_id, Len(calls) + 1)
          /\ calls' = Append(calls, Call("satisfy_requirement",
                                         <<requirement_id, Len(calls) + 1>>, None))
    /\ UNCHANGED <<req_counter, ratings, offers, twin, loading_in, class_out>>

\* one direct call of RequirementEngine.determine on the case
Determine ==
    /\ \E r \in {determine(risk_case, req_counter)} :
          /\ risk_case' = r.risk_case
          /\ req_counter' = r.req_counter
          /\ calls' = Append(calls, Call("determine", None, Some(r.result)))
    /\ UNCHANGED <<ratings, offers, twin, loading_in, class_out>>

\* one direct call of LLMAdvisor.advise on the case, against whatever the call meets
Advise ==
    /\ \E llm \in LLMOutcomes :
          \E r \in {advise(risk_case, llm)} :
              /\ risk_case' = r.risk_case
              /\ calls' = Append(calls, Call("advise", llm, Some(r.advisory)))
    /\ UNCHANGED <<req_counter, ratings, offers, twin, loading_in, class_out>>

\* fewer than MaxOps operations have been applied to the case
OpsLeft == Len(calls) + Len(ratings) + Len(offers) < MaxOps

\* the operations that write to a case, interleaved freely on the two shipped
\* profiles and on a case without a proposal
InitCase ==
    InitOf({create_risk_case_from_synthetic(p) :
                p \in Baselines \cup {[ProfileA EXCEPT !.proposal = None]}},
           {<<0, 1>>})
NextCase ==
    /\ OpsLeft
    /\ \/ LogAudit
       \/ AddRequirement
       \/ SatisfyRequirement
       \/ Determine
       \/ Rate
       \/ Advise
       \/ Process
SpecCase == InitCase /\ [][NextCase]_vars

\* determine called repeatedly on every case that differs from a baseline in one
\* evidence group
NextDetermine == OpsLeft /\ Determine
SpecDetermine == Init /\ [][NextDetermine]_vars

\* declared incomes as a caller of the domain model can set them: absent, or an
\* EvidenceValue holding any number
DirectIncomes == {None, Some(0), Some(0 - 600000), Some(600000), Some(1000000)}

\* determine on cases whose declared income is set directly on the case
InitIncome ==
    InitOf({[create_risk_case_from_synthetic(p) EXCEPT
                 !.financial.income.declared_annual = income] :
                p \in SingleDeviations({"proposal", "identity", "age", "declared"}),
                income \in DirectIncomes},
           {<<0, 1>>})
SpecIncome == InitIncome /\ [][NextDetermine]_vars

\* one sum assured in every slab of SA_MEDICAL_GRID, one age in every band of
\* AGE_MEDICAL_MODIFIERS and a missing age
SlabSums == {0, 3000000, 7500000, 15000000, 30000000, 75000000, 200000000}
BandAges == {None} \cup {Some(a) : a \in {30, 40, 50, 58, 63}}

\* determine on profile A under every combination of slab, age band and disclosures
InitMedical ==
    InitOf({create_risk_case_from_synthetic(
                [ProfileA EXCEPT !.proposal = Some(sa), !.age = age,
                                 !.declared = declared, !.smoking = smoking,
                                 !.alcohol = alcohol, !.history = history]) :
                sa \in SlabSums, age \in BandAges, declared \in {"No", "Yes"},
                smoking \in {Smoking("Never", None, None), Smoking("Current", Some(5), None)},
                alcohol \in {"Social", "Heavy"}, history \in Histories},
           {<<0, 1>>})
SpecMedical == InitMedical /\ [][NextDetermine]_vars

-----------------------------------------------------------------------------
(* Reading the case and the recorded calls *)

Calls == 1..Len(ratings)
Returned == {i \in Calls : ~ratings[i].raised}
Result(i) == Val(ratings[i].result)

CaseAge == IF risk_case.identity = None THEN None ELSE Val(risk_case.identity).age
CaseBMI == risk_case.medical.vitals.bmi
CaseHbA1c == risk_case.medical.diabetes.hba1c
CaseSmoking == risk_case.lifestyle.smoking
CaseAlcohol == risk_case.lifestyle.alcohol.status
CaseOccupation == risk_case.lifestyle.occupation.occupation_class
CaseBP == risk_case.medical.vitals.bp_readings
CaseSumAssured == IF risk_case.proposal = None THEN None
                  ELSE Some(Val(risk_case.proposal).sum_assured)

\* the evidence of a case built from profile p (the case itself also holds the
\* audit trail and the underwriting state, which operations change)
HasEvidenceOf(p) ==
    LET c == create_risk_case_from_synthetic(p)
    IN  /\ risk_case.identity = c.identity
        /\ risk_case.proposal = c.proposal
        /\ risk_case.medical = c.medical
        /\ risk_case.lifestyle = c.lifestyle
        /\ risk_case.financial = c.financial

-----------------------------------------------------------------------------
(* C1 *)

\* C1: for every case whose applicant age is outside [18,65] (any age below 18,
\* 0 included, or above 65), rate() returns decision DECLINE, whatever the other
\* evidence is.
C1_AgeOutsideRangeDeclines ==
    \A i \in Calls :
        (CaseAge # None /\ (Val(CaseAge) < 18 \/ Val(CaseAge) > 65))
            => (~ratings[i].raised /\ Result(i).decision = "DECLINE")

-----------------------------------------------------------------------------
(* C2 *)

BMIFires == CaseBMI # None /\ Val(CaseBMI) > 400
HbA1cFires == CaseHbA1c # None /\ Val(CaseHbA1c) > 100
AlcoholFires == CaseAlcohol = "Heavy"
SmokingFires == /\ CaseSmoking.status = "Current"
                /\ CaseSmoking.pack_years # None
                /\ Val(CaseSmoking.pack_years) > 30

\* C2: the auto-decline gate is a logical OR of independent conditions: each one
\* of BMI > 40, HbA1c > 10, alcohol "Heavy", or (smoking "Current" and pack-years
\* > 30) makes rate() return DECLINE, and each reports its own reason exactly
\* when it holds.
C2_DeclineGateIsOr ==
    \A i \in Calls :
        /\ (BMIFires \/ HbA1cFires \/ AlcoholFires \/ SmokingFires)
               => (~ratings[i].raised /\ Result(i).decision = "DECLINE")
        /\ (~ratings[i].raised /\ Result(i).decision = "DECLINE") =>
              LET reasons == Result(i).decline_reasons
              IN  /\ InSeqOf("BMI indicates morbid obesity", reasons) <=> BMIFires
                  /\ InSeqOf("HbA1c indicates severe uncontrolled diabetes", reasons)
                         <=> HbA1cFires
                  /\ InSeqOf("Heavy alcohol consumption", reasons) <=> AlcoholFires
                  /\ InSeqOf("Heavy smoking history (>30 pack-years)", reasons)
                         <=> SmokingFires

\* heavy smoking alone, on the otherwise benign profile, has been declined
C2_Witness ==
    /\ HasEvidenceOf([ProfileA EXCEPT !.smoking = Smoking("Current", Some(31), None)])
    /\ Len(ratings) >= 1
    /\ ~ratings[1].raised
    /\ Result(1).decision = "DECLINE"
    /\ Result(1).decline_reasons = <<"Heavy smoking history (>30 pack-years)">>

-----------------------------------------------------------------------------
(* C3 *)

\* C3: calling rate() twice on the same case with no change in between returns
\* two RatingResults equal in every field, and the two calls together append
\* exactly two audit entries, one RATING_COMPLETED entry per call.
C3_RateIdempotent ==
    \A i \in Calls : \A j \in Calls :
        (j = i + 1 /\ ratings[j].audit_before = ratings[i].audit_after) =>
            /\ ~ratings[i].raised /\ ~ratings[j].raised
            /\ Result(i) = Result(j)
            /\ ratings[j].audit_after = ratings[i].audit_before + 2
            /\ Len(risk_case.audit_trail) >= ratings[j].audit_after
            /\ \A k \in (ratings[i].audit_before + 1)..ratings[j].audit_after :
                   risk_case.audit_trail[k].action = "RATING_COMPLETED"

\* a case with loadings that is referred has been rated twice, and its audit
\* trail holds the creation entry and the two RATING_COMPLETED entries
C3_Witness ==
    /\ Len(ratings) = 2
    /\ ~ratings[1].raised /\ ~ratings[2].raised
    /\ Result(2).loadings # <<>>
    /\ Result(2).refer_reasons # <<>>
    /\ Len(risk_case.audit_trail) = 3

-----------------------------------------------------------------------------
(* C4 *)

\* the condition category a loading belongs to
LoadingCategory(l) ==
    CASE l.condition \in {"BMI_Underweight", "BMI_Normal", "BMI_Overweight",
                          "BMI_Obese", "BMI_Morbidly Obese", "BMI_Unknown"} -> "BMI"
      [] l.condition = "Diabetes" -> "Diabetes"
      [] l.condition \in {"Hypertension", "Elevated_BP"} -> "BloodPressure"
      [] l.condition \in {"Smoking", "Recent_Ex_Smoker", "Ex_Smoker"} -> "Smoking"
      [] l.condition = "Regular_Alcohol" -> "Alcohol"
      [] OTHER -> "Occupation"

\* C4: in every RatingResult returned by rate(), total_loading_percent is the sum
\* of loading_percent over result.loadings, and the loadings hold at most one
\* entry per condition category.
C4_TotalIsSumOnePerCategory ==
    \A i \in Returned :
        LET ls == Result(i).loadings
        IN  /\ Result(i).total_loading_percent = SumLoadings(ls)
            /\ \A j \in 1..Len(ls) : \A k \in 1..Len(ls) :
                   j # k => LoadingCategory(ls[j]) # LoadingCategory(ls[k])

\* a result with loadings from five categories, a hypertensive reading among them
C4_Witness ==
    \E i \in Returned :
        /\ Len(Result(i).loadings) >= 5
        /\ \E k \in 1..Len(Result(i).loadings) :
               Result(i).loadings[k].condition = "Hypertension"
        /\ Result(i).total_loading_percent >= 300

-----------------------------------------------------------------------------
(* C6, C7 *)

\* the scenario-B evidence: age 45, BMI 31.0, HbA1c 8.2 with duration under 5 years,
\* smoking "Current" with 15 pack-years, latest BP 145/95, and nothing else that
\* loads (alcohol not "Regular", occupation class below 3)
IsScenarioB ==
    /\ CaseAge = Some(45)
    /\ CaseBMI = Some(310)
    /\ CaseHbA1c = Some(82)
    /\ OrElse(risk_case.medical.diabetes.duration_years, 0) < 5
    /\ CaseSmoking.status = "Current" /\ CaseSmoking.pack_years = Some(15)
    /\ CaseBP # <<>> /\ CaseBP[Len(CaseBP)] = BPReading(Some(145), Some(95))
    /\ CaseAlcohol \in {"Never", "Social"}
    /\ CaseOccupation \in {Some(1), Some(2)}

\* C6: scenario B fires exactly the loadings BMI 50, Diabetes 75, Hypertension 50
\* and Smoking 100; total loading is 275, risk class SUBSTANDARD_4, decision REFER.
C6_ScenarioB ==
    \A i \in Calls :
        IsScenarioB =>
            /\ ~ratings[i].raised
            /\ Result(i).loadings = <<LoadingReason("Medical", "BMI_Obese", 50),
                                      LoadingReason("Medical", "Diabetes", 75),
                                      LoadingReason("Medical", "Hypertension", 50),
                                      LoadingReason("Lifestyle", "Smoking", 100)>>
            /\ Result(i).total_loading_percent = 275
            /\ Result(i).risk_class = "SUBSTANDARD_4"
            /\ Result(i).decision = "REFER"

\* the high-risk profile of main.py has been rated
C6_Witness ==
    /\ HasEvidenceOf(ProfileB)
    /\ IsScenarioB
    /\ Len(ratings) >= 1
    /\ ~ratings[1].raised
    /\ Result(1).refer_reasons = <<"Total loading exceeds auto-approve threshold">>

\* the scenario-A evidence: age 36, BMI 22.1, no HbA1c value, smoking "Never",
\* alcohol "Social", occupation class 1, sum assured 15,000,000, and nothing else
\* that loads or refers (BP absent or normal, no complications, normal ECG)
IsScenarioA ==
    /\ CaseAge = Some(36)
    /\ CaseBMI = Some(221)
    /\ CaseHbA1c = None
    /\ CaseSmoking.status = "Never"
    /\ CaseAlcohol = "Social"
    /\ CaseOccupation = Some(1)
    /\ CaseSumAssured = Some(15000000)
    /\ CaseBP = <<>> \/ ( /\ Val(CaseBP[Len(CaseBP)].systolic) < 130
                          /\ Val(CaseBP[Len(CaseBP)].diastolic) < 80 )
    /\ ~risk_case.medical.diabetes.has_complications
    /\ ~risk_case.medical.cardiac.ecg_abnormal

\* C7: scenario A is approved with total loading 0 and risk class PREFERRED.
C7_ScenarioA ==
    \A i \in Calls :
        IsScenarioA =>
            /\ ~ratings[i].raised
            /\ Result(i).decision = "APPROVE"
            /\ Result(i).total_loading_percent = 0
            /\ Result(i).loadings = <<>>
            /\ Result(i).risk_class = "PREFERRED"

\* the benign profile of main.py has been rated
C7_Witness ==
    /\ HasEvidenceOf(ProfileA)
    /\ IsScenarioA
    /\ Len(ratings) >= 1
    /\ ~ratings[1].raised
    /\ Result(1).decision = "APPROVE"

-----------------------------------------------------------------------------
(* C8 *)

\* C8: rate() never lets an exception escape: every call returns a RatingResult,
\* also on a case whose evidence misses a numeric field (occupation class, a BP
\* value).
C8_RateNeverRaises ==
    \A i \in Calls : ~ratings[i].raised /\ ratings[i].result # None

-----------------------------------------------------------------------------
(* C5 *)

\* the band table of the claim
BandOf(total) ==
    CASE total = 0 -> "PREFERRED"
      [] total \in 1..25 -> "STANDARD"
      [] total \in 26..50 -> "SUBSTANDARD_1"
      [] total \in 51..75 -> "SUBSTANDARD_2"
      [] total \in 76..100 -> "SUBSTANDARD_3"
      [] OTHER -> "SUBSTANDARD_4"

ClassRank(c) ==
    CASE c = "PREFERRED" -> 0
      [] c = "STANDARD" -> 1
      [] c = "SUBSTANDARD_1" -> 2
      [] c = "SUBSTANDARD_2" -> 3
      [] c = "SUBSTANDARD_3" -> 4
      [] c = "SUBSTANDARD_4" -> 5
      [] OTHER -> 6

-----------------------------------------------------------------------------
(* C9 *)

Runs == 1..Len(offers)
Completed(i) == ~offers[i].raised
Offer(i) == Val(offers[i].offer)
Rating(i) == Val(offers[i].rating)

ApproveVariants == {"APPROVE", "APPROVE_WITH_LOADING", "APPROVE_WITH_EXCLUSION"}
TableRates == {BASE_RATES[k].rate : k \in 1..Len(BASE_RATES)} \cup {DefaultBaseRate}

\* C9: the offer of a completed run is priced exactly when the rating decision is
\* an approve variant.  Priced: sum_assured is the proposal's, base premium is
\* (sum_assured / 1000) x a base rate of the table (or the default), loaded premium
\* is base premium x (1 + total / 100), total and loadings are the rating's.
\* Otherwise (DECLINE, REFER): sum_assured, both premiums and the total are 0 and
\* the loadings list is empty, whatever total the RatingResult carries.
C9_PricingOnlyForApprove ==
    \A i \in Runs :
        Completed(i) =>
            LET o == Offer(i)
                r == Rating(i)
            IN  IF r.decision \in ApproveVariants
                THEN /\ o.sum_assured = OrElse(CaseSumAssured, 0)
                     /\ \E base_rate \in TableRates :
                            o.base_premium_annual = (o.sum_assured \div 1000) * base_rate
                     /\ o.base_premium_annual % 100 = 0
                     /\ o.loaded_premium_annual =
                            o.base_premium_annual
                                + (o.base_premium_annual \div 100) * r.total_loading_percent
                     /\ o.total_loading_percent = r.total_loading_percent
                     /\ Len(o.loadings) = Len(r.loadings)
                ELSE /\ r.decision \in {"DECLINE", "REFER"}
                     /\ o.sum_assured = 0
                     /\ o.base_premium_annual = 0
                     /\ o.loaded_premium_annual = 0
                     /\ o.total_loading_percent = 0
                     /\ o.loadings = <<>>

\* a referred case whose rating carries 275% of loadings and whose offer carries
\* no pricing at all, although the proposal asks for a sum assured
C9_Witness ==
    \E i \in Runs :
        /\ Completed(i)
        /\ Rating(i).decision = "REFER"
        /\ Rating(i).total_loading_percent = 275
        /\ Len(Rating(i).loadings) = 4
        /\ CaseSumAssured = Some(15000000)
        /\ Offer(i).decision = "REFER"
        /\ Offer(i).total_loading_percent = 0
        /\ Offer(i).loadings = <<>>
        /\ Offer(i).loaded_premium_annual = 0

-----------------------------------------------------------------------------
(* C10 *)

\* the first run on the case and the run on its twin, both on a freshly built case
FreshPair ==
    IF Len(offers) >= 1 /\ twin.run # None THEN {<<offers[1], Val(twin.run)>>} ELSE {}

\* every two runs on the same evidence: the runs on the case, and the twin's
AllRuns == {offers[i] : i \in Runs} \cup (IF twin.run = None THEN {} ELSE {Val(twin.run)})

SameOutcome(a, b) ==
    /\ a.decision = b.decision
    /\ a.risk_class = b.risk_class
    /\ a.reasoning = b.reasoning
    /\ a.sum_assured = b.sum_assured
    /\ a.loadings = b.loadings
    /\ a.total_loading_percent = b.total_loading_percent
    /\ a.base_premium_annual = b.base_premium_annual
    /\ a.loaded_premium_annual = b.loaded_premium_annual
    /\ a.exclusions = b.exclusions

-----------------------------------------------------------------------------
(* C11: the audit trail only grows at its end *)

\* what the last step called: a direct operation, rate() or process()
IsPrefix(s, t) == Len(s) <= Len(t) /\ SubSeq(t, 1, Len(s)) = s
NewEntries == SubSeq(risk_case'.audit_trail, Len(risk_case.audit_trail) + 1,
                     Len(risk_case'.audit_trail))
OpsDone == {calls[i].op : i \in 1..Len(calls)}

\* C11: across every step of log_audit, add_requirement, satisfy_requirement,
\* determine, rate, advise and process, every entry that was in the case's audit
\* trail before the step is still there afterwards, unchanged and at the same
\* position; a step only adds entries after them.
C11_TrailAppendOnly ==
    [][IsPrefix(risk_case.audit_trail, risk_case'.audit_trail)]_vars

\* a case whose trail has grown under three different operations, a satisfied
\* requirement among them
C11_Witness ==
    /\ "satisfy_requirement" \in OpsDone
    /\ \E i \in 1..Len(risk_case.audit_trail) :
           risk_case.audit_trail[i].action = "REQUIREMENT_SATISFIED"
    /\ Len(ratings) + Len(offers) > 0
    /\ Len(risk_case.audit_trail) > 3

-----------------------------------------------------------------------------
(* C12: every mutation of the case has its audit entry *)

Pending == risk_case.underwriting_state.pending_requirements
PendingAfter == risk_case'.underwriting_state.pending_requirements

\* the entries a step wrote that name the field as the one changed
FieldEntries(field) ==
    {i \in 1..Len(NewEntries) : NewEntries[i].field_changed = Some(field)}

\* the entry carries an actor, a component and a reason
Carries(entry) ==
    /\ entry.actor # ""
    /\ entry.component # ""
    /\ IF entry.action = "REQUIREMENT_SATISFIED" THEN entry.reason # ""
       ELSE entry.reason # <<>>

\* C12: every step writes one audit entry, carrying actor, component and reason, for
\* each requirement it adds to the case and for each requirement it satisfies, and
\* an entry naming the field when it changes underwriting_state.status and when it
\* stores the pricing basis.
C12_EveryMutationAudited ==
    [][/\ Cardinality(FieldEntries(<<"pending_requirements">>))
              = Len(PendingAfter) - Len(Pending)
       /\ \A i \in FieldEntries(<<"pending_requirements">>) : Carries(NewEntries[i])
       /\ \A k \in 1..Len(Pending) :
              PendingAfter[k] # Pending[k] =>
                  LET written == FieldEntries(<<"requirement",
                                                Pending[k].requirement_id, "status">>)
                  IN  /\ Cardinality(written) = 1
                      /\ \A i \in written : Carries(NewEntries[i])
       /\ risk_case'.underwriting_state.status # risk_case.underwriting_state.status
              => \E i \in FieldEntries(<<"underwriting_state", "status">>) :
                     Carries(NewEntries[i])
       /\ risk_case'.pricing_basis # risk_case.pricing_basis
              => /\ Cardinality(FieldEntries(<<"pricing_basis">>)) = 1
                 /\ \A i \in FieldEntries(<<"pricing_basis">>) : Carries(NewEntries[i])
      ]_vars

-----------------------------------------------------------------------------
(* C13: PENDING to RECEIVED is the only transition of a requirement *)

\* C13: across every step, every requirement of the case stays in the case at its
\* position, and it is either left as it was or it was PENDING and is now RECEIVED
\* with the satisfying document recorded; a requirement that is RECEIVED, VERIFIED,
\* WAIVED or NOT_REQUIRED is left as it was.
C13_OnlyPendingToReceived ==
    [][/\ Len(PendingAfter) >= Len(Pending)
       /\ \A k \in 1..Len(Pending) :
              \/ PendingAfter[k] = Pending[k]
              \/ /\ Pending[k].status = "PENDING"
                 /\ PendingAfter[k].document_id # None
                 /\ PendingAfter[k] = [Pending[k] EXCEPT
                                           !.status = "RECEIVED",
                                           !.document_id = PendingAfter[k].document_id]
      ]_vars

-----------------------------------------------------------------------------
(* C14: determine records on the case what it returns *)

\* the step is a direct call of determine, and what that call returned
DetermineStep ==
    /\ Len(calls') = Len(calls) + 1
    /\ calls'[Len(calls')].op = "determine"
Determined == Val(calls'[Len(calls')].result)
DeterminedAt(i) == Val(calls[i].result)

\* C14: a call of determine on a case with a proposal appends the requirements of
\* the set it returns to the case's list, one each and in the set's order, and
\* writes one REQUIREMENTS_DETERMINED entry followed by one REQUIREMENT_ADDED entry
\* per requirement.
C14_DetermineRecordsItsSet ==
    [][DetermineStep /\ risk_case.proposal # None =>
           /\ PendingAfter = Pending \o all_requirements(Determined)
           /\ Len(NewEntries) = 1 + total_count(Determined)
           /\ NewEntries[1].action = "REQUIREMENTS_DETERMINED"
           /\ NewEntries[1].new_value = Some(total_count(Determined))
           /\ \A k \in 1..total_count(Determined) :
                  /\ NewEntries[1 + k].action = "REQUIREMENT_ADDED"
                  /\ NewEntries[1 + k].new_value
                         = Some(all_requirements(Determined)[k].requirement_type)
      ]_vars

\* determine has run twice on a case with a proposal and the case holds what the
\* two calls returned
C14_Witness ==
    /\ Len(calls) = 2
    /\ \A i \in 1..2 : calls[i].op = "determine"
    /\ risk_case.proposal # None
    /\ total_count(DeterminedAt(2)) > 5
    /\ Len(risk_case.underwriting_state.pending_requirements)
           = total_count(DeterminedAt(1)) + total_count(DeterminedAt(2))

-----------------------------------------------------------------------------
(* C15: the slab of a sum assured of 15,000,000 *)

IsSlabRequirement(req) == req.triggered_by[1] = "SA_SLAB"
SlabTests(rs) ==
    LET slab == SelectSeq(rs.medical_requirements, IsSlabRequirement)
    IN  [k \in 1..Len(slab) |-> slab[k].requirement_type]
SlabTriggers(rs) ==
    {rs.medical_requirements[k].triggered_by :
         k \in {j \in 1..Len(rs.medical_requirements) :
                    IsSlabRequirement(rs.medical_requirements[j])}}

\* C15: determine on a case with sum assured 15,000,000 returns as slab-derived
\* medical requirements exactly Full_Medical, ECG, Lipid_Profile, LFT, KFT, HIV,
\* HbA1c, in that order, each triggered by the slab 10,000,001 to 25,000,000.
C15_SlabOfFifteenMillion ==
    [][DetermineStep /\ CaseSumAssured = Some(15000000) =>
           /\ SlabTests(Determined)
                  = <<"Full_Medical", "ECG", "Lipid_Profile", "LFT", "KFT", "HIV",
                      "HbA1c">>
           /\ SlabTriggers(Determined) = {<<"SA_SLAB", 10000001, 25000000>>}
      ]_vars

\* determine has returned for a case with sum assured 15,000,000, with the ECG of
\* the slab among the requirements
C15_Witness ==
    /\ CaseSumAssured = Some(15000000)
    /\ Len(calls) > 0
    /\ calls[1].op = "determine"
    /\ "ECG" \in Types(DeterminedAt(1).medical_requirements)

-----------------------------------------------------------------------------
(* C16: determine on a case that misses its proposal, identity or age *)

AgeMissing == risk_case.identity = None \/ ~Truthy(Val(risk_case.identity).age)
AgeTriggered(rs) ==
    {k \in 1..Len(rs.medical_requirements) :
         rs.medical_requirements[k].triggered_by[1] = "AGE_BAND"}
SlabRows(sa) ==
    {i \in 1..Len(SA_MEDICAL_GRID) :
         SA_MEDICAL_GRID[i].min <= sa /\ sa <= SA_MEDICAL_GRID[i].max}

-----------------------------------------------------------------------------
(* C17: the base rate of a priced offer *)

BandRates(age) ==
    {BASE_RATES[k].rate : k \in {j \in 1..Len(BASE_RATES) :
                                     /\ BASE_RATES[j].min_age <= age
                                     /\ age <= BASE_RATES[j].max_age}}

\* the rate the age calls for: the rate of its band, the default when the age is
\* missing or in no band
RateCalledFor ==
    IF CaseAge = None \/ BandRates(Val(CaseAge)) = {} THEN {DefaultBaseRate}
    ELSE BandRates(Val(CaseAge))

\* C17: every run of the pipeline whose rating decision is an approve variant
\* completes, and the base rate it stores is the rate of the one band that holds the
\* applicant's age, or the default 2.50 when the age is missing, 0 or otherwise in
\* no band.
C17_BaseRateOfTheAgeBand ==
    \A i \in Runs :
        offers[i].rating # None /\ Rating(i).decision \in ApproveVariants =>
            /\ Completed(i)
            /\ risk_case.pricing_basis # None
            /\ {Val(risk_case.pricing_basis).base_rate_per_1000} = RateCalledFor
            /\ Offer(i).base_premium_annual
                   = MulDiv(Offer(i).sum_assured,
                            Val(risk_case.pricing_basis).base_rate_per_1000, 1000)

-----------------------------------------------------------------------------
(* C18: a decline is terminal *)

AgeFires == CaseAge # None /\ (Val(CaseAge) \in 1..17 \/ Val(CaseAge) > 65)
GateFires == AgeFires \/ BMIFires \/ HbA1cFires \/ AlcoholFires \/ SmokingFires
ReferCondition ==
    risk_case.medical.diabetes.has_complications \/ risk_case.medical.cardiac.ecg_abnormal

\* C18: whenever rate() returns DECLINE the risk class is DECLINE, decline_reasons
\* is non-empty, loadings, exclusions and refer_reasons are empty and the total
\* loading is 0; and a case on which a gate condition fires is declined also when it
\* has diabetic complications or an abnormal ECG.
C18_DeclineIsTerminal ==
    \A i \in Returned :
        /\ Result(i).decision = "DECLINE" =>
               /\ Result(i).risk_class = "DECLINE"
               /\ Result(i).decline_reasons # <<>>
               /\ Result(i).loadings = <<>>
               /\ Result(i).exclusions = <<>>
               /\ Result(i).refer_reasons = <<>>
               /\ Result(i).total_loading_percent = 0
        /\ GateFires /\ ReferCondition => Result(i).decision = "DECLINE"

\* a heavy drinker with diabetic complications and an abnormal ECG, declined
C18_Witness ==
    /\ AlcoholFires
    /\ risk_case.medical.diabetes.has_complications
    /\ risk_case.medical.cardiac.ecg_abnormal
    /\ Len(ratings) >= 1
    /\ ~ratings[1].raised
    /\ Result(1).decision = "DECLINE"
    /\ Result(1).refer_reasons = <<>>

-----------------------------------------------------------------------------
(* C19: when a case that passes the gate is referred *)

\* C19: for every case rate() does not decline, the decision is REFER exactly when
\* the total loading is above 100, or diabetic complications are disclosed, or an
\* abnormal ECG is on record; a referred case has a refer reason and the risk class
\* its total loading implies.
C19_ReferExactlyWhen ==
    \A i \in Returned :
        Result(i).decision # "DECLINE" =>
            /\ Result(i).decision = "REFER"
                   <=> (Result(i).total_loading_percent > 100 \/ ReferCondition)
            /\ Result(i).decision = "REFER" =>
                   /\ Result(i).refer_reasons # <<>>
                   /\ Result(i).risk_class = BandOf(Result(i).total_loading_percent)

\* a case with an abnormal ECG and nothing that loads is referred, in the class
\* PREFERRED
C19_Witness ==
    /\ Len(ratings) >= 1
    /\ ~ratings[1].raised
    /\ Result(1).total_loading_percent = 0
    /\ risk_case.medical.cardiac.ecg_abnormal
    /\ ~risk_case.medical.diabetes.has_complications
    /\ Result(1).decision = "REFER"
    /\ Result(1).refer_reasons = <<"Abnormal ECG requires underwriter review">>
    /\ Result(1).risk_class = "PREFERRED"

-----------------------------------------------------------------------------
(* C20: the approve variants *)

\* C20: for every case rate() neither declines nor refers, the decision is APPROVE
\* exactly when there are no loadings and no exclusions, APPROVE_WITH_LOADING
\* exactly when there is at least one loading, and APPROVE_WITH_EXCLUSION exactly
\* when there are exclusions and no loadings.
C20_ApproveVariants ==
    \A i \in Returned :
        Result(i).decision \notin {"DECLINE", "REFER"} =>
            /\ Result(i).decision = "APPROVE"
                   <=> (Result(i).loadings = <<>> /\ Result(i).exclusions = <<>>)
            /\ Result(i).decision = "APPROVE_WITH_LOADING"
                   <=> Result(i).loadings # <<>>
            /\ Result(i).decision = "APPROVE_WITH_EXCLUSION"
                   <=> (Result(i).exclusions # <<>> /\ Result(i).loadings = <<>>)

\* a case approved with one loading of 25, within the standard band
C20_Witness ==
    /\ Len(ratings) >= 1
    /\ ~ratings[1].raised
    /\ Result(1).decision = "APPROVE_WITH_LOADING"
    /\ Len(Result(1).loadings) = 1
    /\ Result(1).total_loading_percent = 25
    /\ Result(1).exclusions = <<>>

-----------------------------------------------------------------------------
(* C21: HbA1c above 8.5 and the loading step *)

\* C21: in every call of rate() that passes the decline gate and accumulates
\* loadings, the HbA1c of the case is absent or at most 8.5.
C21_UncontrolledNeverLoaded ==
    \A i \in Returned :
        Result(i).decision # "DECLINE" =>
            (CaseHbA1c = None \/ Val(CaseHbA1c) <= 85)

-----------------------------------------------------------------------------
(* C22: the smoking tiers *)

\* the loading percentages of the smoking conditions of a rating, in order
SmokingPercents(result) ==
    LET IsSmoking(l) == l.condition \in {"Smoking", "Recent_Ex_Smoker", "Ex_Smoker"}
        ls == SelectSeq(result.loadings, IsSmoking)
    IN  [k \in 1..Len(ls) |-> ls[k].loading_percent]

\* the tiers as stated; pack-years or years not on record fall in the last tier
SmokingTier ==
    LET s == CaseSmoking
    IN  IF s.status = "Current"
        THEN (IF s.pack_years # None /\ Val(s.pack_years) < 10 THEN <<75>> ELSE <<100>>)
        ELSE IF s.status = "Former"
        THEN (IF s.years_since_quit # None /\ Val(s.years_since_quit) < 2 THEN <<50>>
              ELSE IF s.years_since_quit # None /\ Val(s.years_since_quit) < 5
              THEN <<25>>
              ELSE <<>>)
        ELSE <<>>

\* C22: in every non-declined rating the smoking loading is the one of the stated
\* tier: current smoker 75 when pack-years < 10 (0 included) and 100 otherwise;
\* former smoker 50 when years since quitting < 2 (0 included), 25 when < 5, none
\* otherwise; never-smoker none.
C22_SmokingTiers ==
    \A i \in Returned :
        Result(i).decision # "DECLINE" => SmokingPercents(Result(i)) = SmokingTier

-----------------------------------------------------------------------------
(* C23: the financial requirements *)

CaseIncome == risk_case.financial.income.declared_annual
FinancialDocs(rs) ==
    [k \in 1..Len(rs.financial_requirements) |->
         rs.financial_requirements[k].requirement_type]
RatioRows(sa, income) ==
    {i \in 1..Len(SA_INCOME_RATIO_REQUIREMENTS) :
         /\ SA_INCOME_RATIO_REQUIREMENTS[i].min * income <= sa
         /\ \/ SA_INCOME_RATIO_REQUIREMENTS[i].max = Inf
            \/ sa < SA_INCOME_RATIO_REQUIREMENTS[i].max * income}

\* C23: a call of determine on a case with a proposal returns, when the declared
\* income is present and positive, the documents of the one band that holds
\* sum_assured / income, and otherwise (income absent, zero or negative) the default
\* pair Income_Declaration, PAN_Verification; so it never returns an empty financial
\* list.
C23_FinancialRequirements ==
    [][DetermineStep /\ risk_case.proposal # None =>
           /\ IF CaseIncome # None /\ Val(CaseIncome) > 0
              THEN /\ Cardinality(RatioRows(Val(CaseSumAssured), Val(CaseIncome))) = 1
                   /\ \A i \in RatioRows(Val(CaseSumAssured), Val(CaseIncome)) :
                          FinancialDocs(Determined)
                              = SA_INCOME_RATIO_REQUIREMENTS[i].docs
              ELSE FinancialDocs(Determined) = <<"Income_Declaration", "PAN_Verification">>
           /\ FinancialDocs(Determined) # <<>>
      ]_vars

-----------------------------------------------------------------------------
(* C24: medical requirements are a union keyed by test name *)

SeqRange(q) == {q[k] : k \in 1..Len(q)}
SlabTestsOf(sa) == UNION {SeqRange(SA_MEDICAL_GRID[i].tests) : i \in SlabRows(sa)}
AgeTestsOf(age) ==
    IF ~Truthy(age) THEN {}
    ELSE UNION {SeqRange(AGE_MEDICAL_MODIFIERS[i].tests) :
                    i \in {j \in 1..Len(AGE_MEDICAL_MODIFIERS) :
                               /\ AGE_MEDICAL_MODIFIERS[j].min <= Val(age)
                               /\ Val(age) <= AGE_MEDICAL_MODIFIERS[j].max}}
DisclosuresOfCase ==
    (IF risk_case.medical.diabetes.is_diabetic \in {"Yes", "Prediabetic"}
     THEN {"diabetes"} ELSE {})
    \cup (IF CaseSmoking.status = "Current" THEN {"smoking"} ELSE {})
    \cup (IF CaseAlcohol = "Heavy" THEN {"heavy_alcohol"} ELSE {})
    \cup (IF "Hypertension" \in SeqRange(risk_case.medical.history.conditions)
          THEN {"hypertension"} ELSE {})
DisclosureTestsOfCase ==
    UNION {SeqRange(DISCLOSURE_REQUIREMENTS(x)) : x \in DisclosuresOfCase}

\* C24: in the set one call of determine returns no two medical requirements have
\* the same requirement_type, and every test of the slab of the sum assured, of the
\* band of the age and of every triggered disclosure is among them.
C24_MedicalIsUnion ==
    [][DetermineStep /\ risk_case.proposal # None =>
           /\ Cardinality(Types(Determined.medical_requirements))
                  = Len(Determined.medical_requirements)
           /\ SlabTestsOf(Val(CaseSumAssured)) \cup AgeTestsOf(CaseAge)
                  \cup DisclosureTestsOfCase
                  \subseteq Types(Determined.medical_requirements)
      ]_vars

\* determine has returned for a case in the slab of 15,000,000, aged 50, disclosing
\* diabetes and hypertension, whose slab, age band and disclosures all ask for HbA1c
\* or ECG
C24_Witness ==
    /\ CaseSumAssured = Some(15000000)
    /\ CaseAge = Some(50)
    /\ DisclosuresOfCase = {"diabetes", "hypertension"}
    /\ Len(calls) > 0
    /\ calls[1].op = "determine"
    /\ {"HbA1c", "ECG", "Fundoscopy"} \subseteq Types(DeterminedAt(1).medical_requirements)

-----------------------------------------------------------------------------
(* C25: an exclusion always comes with a referral *)

\* C25: rate() never returns APPROVE_WITH_EXCLUSION, and every rating it returns
\* with a non-empty exclusions list has the decision REFER.
C25_ExclusionImpliesRefer ==
    \A i \in Returned :
        /\ Result(i).decision # "APPROVE_WITH_EXCLUSION"
        /\ Result(i).exclusions # <<>> => Result(i).decision = "REFER"

\* a case with diabetic complications and nothing that loads: one exclusion, no
\* loading, referred
C25_Witness ==
    /\ Len(ratings) >= 1
    /\ ~ratings[1].raised
    /\ risk_case.medical.diabetes.has_complications
    /\ Len(Result(1).exclusions) = 1
    /\ Result(1).loadings = <<>>
    /\ Result(1).decision = "REFER"

-----------------------------------------------------------------------------
(* C26: a BMI of 25 or more is loaded *)

\* the loading percentages of the BMI conditions of a rating, in order
BMIPercents(result) ==
    LET IsBMI(l) == LoadingCategory(l) = "BMI"
        ls == SelectSeq(result.loadings, IsBMI)
    IN  [k \in 1..Len(ls) |-> ls[k].loading_percent]

\* C26: every non-declined rating of a case whose BMI is 25 or more carries one BMI
\* loading: 25 for a BMI in [25, 30), 50 in [30, 35), 100 in [35, 40].
C26_HighBMIIsLoaded ==
    \A i \in Returned :
        Result(i).decision # "DECLINE" /\ CaseBMI # None /\ Val(CaseBMI) >= 250 =>
            BMIPercents(Result(i))
                = <<IF Val(CaseBMI) < 300 THEN 25
                    ELSE IF Val(CaseBMI) < 350 THEN 50
                    ELSE 100>>

-----------------------------------------------------------------------------
(* C27: the status process leaves a fresh case in *)

CaseStatus == risk_case.underwriting_state.status

\* C27: when the first run of process on a case returns, the status of the case is
\* APPROVED, DECLINED or REFERRED; it is APPROVED exactly when the offer's decision
\* is an approve variant, DECLINED exactly when it is DECLINE, and the case has a
\* pricing basis exactly when the status is APPROVED.
C27_StatusFollowsDecision ==
    Len(offers) = 1 /\ Completed(1) =>
        /\ CaseStatus \in {"APPROVED", "DECLINED", "REFERRED"}
        /\ CaseStatus = "APPROVED" <=> Offer(1).decision \in ApproveVariants
        /\ CaseStatus = "DECLINED" <=> Offer(1).decision = "DECLINE"
        /\ risk_case.pricing_basis # None <=> CaseStatus = "APPROVED"

\* a first run approved with a loading: the case is APPROVED and priced
C27_Witness ==
    /\ Len(offers) = 1
    /\ Completed(1)
    /\ Offer(1).decision = "APPROVE_WITH_LOADING"
    /\ CaseStatus = "APPROVED"
    /\ risk_case.pricing_basis # None
    /\ Val(risk_case.pricing_basis).loaded_premium_annual = Offer(1).loaded_premium_annual

-----------------------------------------------------------------------------
(* C28: the audit count on the offer *)

\* C28: the audit_trail_count of the offer a run of process returns is the number
\* of entries in the case's audit trail when that run returns.
C28_CountIsTrailAtReturn ==
    \A i \in Runs :
        Completed(i) => Offer(i).audit_trail_count = offers[i].audit_after

-----------------------------------------------------------------------------
(* C29: rate() writes to the audit trail only *)

\* the step is a direct call of rate() that returned, and what it returned
RateStep ==
    /\ Len(ratings') = Len(ratings) + 1
    /\ ~ratings'[Len(ratings')].raised
Rated == Val(ratings'[Len(ratings')].result)

\* C29: a call of rate() that returns, on the decline path as on the normal path,
\* appends one RATING_COMPLETED entry of actor SYSTEM whose new_value holds the
\* decision, the risk class and the total loading of the result, and changes
\* nothing else on the case: evidence, proposal, requirements, status and pricing
\* basis are as before.
C29_RateWritesOneEntryOnly ==
    [][RateStep =>
           /\ Len(NewEntries) = 1
           /\ NewEntries[1].action = "RATING_COMPLETED"
           /\ NewEntries[1].actor = "SYSTEM"
           /\ NewEntries[1].new_value
                  = Some(<<Rated.decision, Rated.risk_class, Rated.total_loading_percent>>)
           /\ risk_case' = [risk_case EXCEPT !.audit_trail = Append(@, NewEntries[1])]
      ]_vars

\* a declined case after one call: its trail ends with the RATING_COMPLETED entry
\* of the decline and its status is still DRAFT
C29_Witness ==
    /\ Len(ratings) = 1
    /\ ~ratings[1].raised
    /\ Result(1).decision = "DECLINE"
    /\ Len(risk_case.audit_trail) = 2
    /\ risk_case.audit_trail[2].action = "RATING_COMPLETED"
    /\ risk_case.audit_trail[2].new_value = Some(<<"DECLINE", "DECLINE", 0>>)
    /\ risk_case.underwriting_state.status = "DRAFT"

-----------------------------------------------------------------------------
(* C30: satisfy_requirement touches one requirement at most *)

\* the step is a direct call of satisfy_requirement, and the id it was called with
SatisfyStep ==
    /\ Len(calls') = Len(calls) + 1
    /\ calls'[Len(calls')].op = "satisfy_requirement"
SatisfiedId == calls'[Len(calls')].arg[1]
WithId(reqs, requirement_id) ==
    {k \in 1..Len(reqs) : reqs[k].requirement_id = requirement_id}
EngineMade(reqs) == {k \in 1..Len(reqs) : reqs[k].triggered_by[1] # "MANUAL"}

\* C30: a call of satisfy_requirement with an id no requirement of the case has
\* leaves the case as it was; with an id some requirement has, it updates exactly
\* one requirement, which has that id, leaves every other requirement as it was and
\* appends exactly one REQUIREMENT_SATISFIED entry.  The ids the RequirementEngine
\* gives out on one case are pairwise distinct.
C30_SatisfyTouchesOne ==
    [][/\ SatisfyStep =>
              IF WithId(Pending, SatisfiedId) = {}
              THEN risk_case' = risk_case
              ELSE /\ Len(PendingAfter) = Len(Pending)
                   /\ \E k \in WithId(Pending, SatisfiedId) :
                          /\ PendingAfter[k] # Pending[k]
                          /\ PendingAfter[k].status = "RECEIVED"
                          /\ \A j \in 1..Len(Pending) :
                                 j # k => PendingAfter[j] = Pending[j]
                   /\ Len(NewEntries) = 1
                   /\ NewEntries[1].action = "REQUIREMENT_SATISFIED"
       /\ \A j, k \in EngineMade(PendingAfter) :
              j # k => PendingAfter[j].requirement_id # PendingAfter[k].requirement_id
      ]_vars

\* a case holding two requirements of the same id after one call with that id: the
\* first is RECEIVED, the second still PENDING
C30_Witness ==
    /\ Len(calls) = 3
    /\ calls[3].op = "satisfy_requirement"
    /\ Len(risk_case.underwriting_state.pending_requirements) = 2
    /\ risk_case.underwriting_state.pending_requirements[1].requirement_id = 901
    /\ risk_case.underwriting_state.pending_requirements[2].requirement_id = 901
    /\ risk_case.underwriting_state.pending_requirements[1].status = "RECEIVED"
    /\ risk_case.underwriting_state.pending_requirements[2].status = "PENDING"
====
